---- MODULE Spec2Model ----
(***************************************************************************)
(* A model of starship's shared runtime context (src/context.rs) and the   *)
(* helpers it relies on (src/utils.rs, src/configs/starship_root.rs):      *)
(* the Context with its two write-once caches, the directory index         *)
(* (DirContents), the rule matchers (ScanDir, ScanAncestors) and the       *)
(* command executor.                                                       *)
(*                                                                         *)
(* Strings are sequences of one-character strings, paths are sequences of  *)
(* components, Option values are sequences of length at most one and       *)
(* Result values are records tagged "Ok" / "Err".                          *)
(***************************************************************************)
EXTENDS Integers, Sequences, FiniteSets, TLC

VARIABLES
    cfg_test,   \* cfg!(test): whether this is a test build
    world,      \* what lies outside the process: the directory, the repository, the clock
    ctx,        \* the Context struct
    once,       \* the Once state of the two OnceLock cells
    threads,    \* the callers that borrow the Context: position and locals
    hist,       \* history: initializer runs, stores and returned outcomes per cache
    runs,       \* two Contexts on one filesystem, configured before and after the scan
    scandir,    \* a ScanDir being built and evaluated
    scan,       \* a call of DirContents::from_path_with_timeout
    proc,       \* a call of internal_exec_cmd / exec_timeout
    anc,        \* a call of ScanAncestors::scan
    op          \* a call of one of the core's entry points and how it ended

vars == <<cfg_test, world, ctx, once, threads, hist, runs, scandir, scan, proc, anc, op>>

\* what a step of one part of the model leaves alone
beside_scandir == <<cfg_test, world, ctx, once, threads, hist, runs, scan, proc, anc, op>>
beside_scan == <<cfg_test, world, ctx, once, threads, hist, runs, scandir, proc, anc, op>>
beside_proc == <<cfg_test, world, ctx, once, threads, hist, runs, scandir, scan, anc, op>>
beside_anc == <<cfg_test, world, ctx, once, threads, hist, runs, scandir, scan, proc, op>>
beside_op == <<cfg_test, world, ctx, once, threads, hist, runs, scandir, scan, proc, anc>>
beside_ctx == <<cfg_test, runs, scandir, scan, proc, anc, op>>
beside_runs == <<cfg_test, world, ctx, once, threads, hist, scandir, scan, proc, anc, op>>

----------------------------------------------------------------------------
(* Option and Result *)

None == <<>>
Some(x) == <<x>>
IsSome(o) == Len(o) = 1
Unwrap(o) == o[1]

Ok(v) == [tag |-> "Ok", v |-> v]
Err(e) == [tag |-> "Err", v |-> e]
IsOk(r) == r.tag = "Ok"

Min(a, b) == IF a < b THEN a ELSE b

----------------------------------------------------------------------------
(* Strings *)

\* str::starts_with(char)
StartsWith(s, c) == Len(s) > 0 /\ s[1] = c

\* &s[1..]
Rest(s) == SubSeq(s, 2, Len(s))

\* positions of the character c in s
Positions(s, c) == {i \in 1..Len(s) : s[i] = c}

SetMin(S) == CHOOSE x \in S : \A y \in S : x <= y
SetMax(S) == CHOOSE x \in S : \A y \in S : x >= y

\* str::split_once('.') followed by .map(|(_, after)| after)
AfterFirstDot(s) ==
    IF Positions(s, ".") = {} THEN None
    ELSE Some(SubSeq(s, SetMin(Positions(s, ".")) + 1, Len(s)))

\* Path::extension of a path whose last component is `name`: nothing for "..",
\* for a name without a dot and for a name whose only dot is the leading one;
\* otherwise what follows the last dot
Extension(name) ==
    IF name = <<".", ".">> \/ Positions(name, ".") = {} THEN None
    ELSE IF SetMax(Positions(name, ".")) = 1 THEN None
    ELSE Some(SubSeq(name, SetMax(Positions(name, ".")) + 1, Len(name)))

RECURSIVE SplitSlash(_)
\* the pieces of s between '/' characters
SplitSlash(s) ==
    IF Positions(s, "/") = {} THEN <<s>>
    ELSE LET i == SetMin(Positions(s, "/"))
         IN <<SubSeq(s, 1, i - 1)>> \o SplitSlash(SubSeq(s, i + 1, Len(s)))

RECURSIVE DropCurDir(_, _)
\* Path::components: empty pieces (repeated or trailing separators) and "."
\* pieces are dropped, except a "." that begins a relative path
DropCurDir(parts, first) ==
    IF parts = <<>> THEN <<>>
    ELSE LET p == Head(parts)
             keep == p # <<>> /\ (p # <<".">> \/ first)
         IN (IF keep THEN <<p>> ELSE <<>>) \o DropCurDir(Tail(parts), FALSE)

\* Path::new(s), as the sequence of its components; the root is the component "/"
PathNew(s) ==
    IF StartsWith(s, "/") THEN <<<<"/">>>> \o DropCurDir(Tail(SplitSlash(s)), FALSE)
    ELSE DropCurDir(SplitSlash(s), TRUE)

----------------------------------------------------------------------------
(* DirContents *)

SCAN_TIMEOUT_DEFAULT == 30
COMMAND_TIMEOUT_DEFAULT == 500
CHECK_EVERY == 256

\* the kinds of directory entry: a real file, a real directory, a symlink to a
\* file, a symlink to a directory, and an entry whose metadata cannot be read
EntryKinds == {"file", "dir", "symlink_file", "symlink_dir", "gone"}

\* a mutation: symlinks are followed whatever the flag says
is_dir_always_follows(entry, follow_symlinks) == entry.kind \in {"dir", "symlink_dir"}

\* follow_symlinks: entry.path().is_dir(); otherwise symlink_metadata().is_dir(),
\* false when the metadata cannot be read
is_dir(entry, follow_symlinks) ==
    IF follow_symlinks THEN entry.kind \in {"dir", "symlink_dir"}
    ELSE entry.kind = "dir"

\* start.elapsed() at the check made for the entry of (0-based) index n: the
\* clock is read once every CHECK_EVERY entries; `clock` holds the readings
Elapsed(clock, n) == clock[Min((n \div CHECK_EVERY) + 1, Len(clock))]

\* the take_while predicate for the entry of (0-based) index n
WithinBudget(n, timeout, clock, test) ==
    \/ test
    \/ n % CHECK_EVERY # 0
    \/ Elapsed(clock, n) < timeout

\* how many leading entries take_while lets through
TakeLen(entries, timeout, clock, test) ==
    SetMin({n \in 0..Len(entries) :
               n = Len(entries) \/ ~WithinBudget(n, timeout, clock, test)})

\* a mutation: only what follows the last dot is recorded
ExtensionsOf_minimal_only(name) ==
    IF StartsWith(name, ".") \/ ~IsSome(Extension(name)) THEN {}
    ELSE {Unwrap(Extension(name))}

\* the extensions one file contributes
ExtensionsOf(name) ==
    IF StartsWith(name, ".") THEN {}
    ELSE {Unwrap(o) : o \in {x \in {Extension(name), AfterFirstDot(name)} : IsSome(x)}}

\* the for_each body over the entries let through and readable
BuildIndex(entries, follow_symlinks) ==
    LET good == {i \in 1..Len(entries) : entries[i].ok}
        dirs == {i \in good : is_dir(entries[i], follow_symlinks)}
        rest == good \ dirs
    IN [files |-> {<<entries[i].name>> : i \in rest},
        file_names |-> {entries[i].name : i \in rest},
        folders |-> {<<entries[i].name>> : i \in dirs},
        extensions |-> UNION {ExtensionsOf(entries[i].name) : i \in rest}]

\* a mutation: running out of budget is reported as an error
from_path_with_timeout_fails_on_timeout(dir, timeout, follow_symlinks, clock, test) ==
    IF ~dir.readable THEN Err(dir.error)
    ELSE IF TakeLen(dir.entries, timeout, clock, test) < Len(dir.entries)
    THEN Err("TimedOut")
    ELSE Ok(BuildIndex(dir.entries, follow_symlinks))

\* `dir` is what fs::read_dir(base) finds: an error, or the entries in the
\* order the operating system yields them
from_path_with_timeout(dir, timeout, follow_symlinks, clock, test) ==
    IF ~dir.readable THEN Err(dir.error)
    ELSE Ok(BuildIndex(SubSeq(dir.entries, 1,
                              TakeLen(dir.entries, timeout, clock, test)),
                       follow_symlinks))

has_file(dc, path) == PathNew(path) \in dc.files
\* a mutation: the name is looked up as a path among the files
has_file_name_as_path(dc, name) == PathNew(name) \in dc.files

has_file_name(dc, name) == name \in dc.file_names
has_folder(dc, path) == PathNew(path) \in dc.folders
has_extension(dc, ext) == ext \in dc.extensions

has_any_positive_file_name(dc, names) ==
    \E i \in 1..Len(names) : ~StartsWith(names[i], "!") /\ has_file_name(dc, names[i])

has_any_positive_folder(dc, paths) ==
    \E i \in 1..Len(paths) : ~StartsWith(paths[i], "!") /\ has_folder(dc, paths[i])

has_any_positive_extension(dc, exts) ==
    \E i \in 1..Len(exts) : ~StartsWith(exts[i], "!") /\ has_extension(dc, exts[i])

has_no_negative_file_name(dc, names) ==
    ~\E i \in 1..Len(names) : StartsWith(names[i], "!") /\ has_file_name(dc, Rest(names[i]))

has_no_negative_folder(dc, paths) ==
    ~\E i \in 1..Len(paths) : StartsWith(paths[i], "!") /\ has_folder(dc, Rest(paths[i]))

has_no_negative_extension(dc, exts) ==
    ~\E i \in 1..Len(exts) : StartsWith(exts[i], "!") /\ has_extension(dc, Rest(exts[i]))

----------------------------------------------------------------------------
(* ScanDir *)

\* a mutation: the negative rules of the other two lists are not consulted
\* once a positive rule of a list is met
is_match_first_list_wins(sd) ==
    \/ /\ has_no_negative_extension(sd.dir_contents, sd.extensions)
       /\ has_any_positive_extension(sd.dir_contents, sd.extensions)
    \/ /\ has_no_negative_file_name(sd.dir_contents, sd.files)
       /\ has_any_positive_file_name(sd.dir_contents, sd.files)
    \/ /\ has_no_negative_folder(sd.dir_contents, sd.folders)
       /\ has_any_positive_folder(sd.dir_contents, sd.folders)

is_match(sd) ==
    /\ has_no_negative_extension(sd.dir_contents, sd.extensions)
    /\ has_no_negative_file_name(sd.dir_contents, sd.files)
    /\ has_no_negative_folder(sd.dir_contents, sd.folders)
    /\ \/ has_any_positive_extension(sd.dir_contents, sd.extensions)
       \/ has_any_positive_file_name(sd.dir_contents, sd.files)
       \/ has_any_positive_folder(sd.dir_contents, sd.folders)

----------------------------------------------------------------------------
(* Bounds and the small sets the inputs are drawn from *)

\* the total number of rules in the three lists of a ScanDir
MaxRules == 3

\* the value of a part of the state that a specification does not use
Off == [pc |-> "off"]

RECURSIVE SeqsUpTo(_, _)
\* the sequences over S of length at most n
SeqsUpTo(S, n) ==
    IF n = 0 THEN {<<>>}
    ELSE LET shorter == SeqsUpTo(S, n - 1)
         IN shorter \cup {Append(q, x) : q \in shorter, x \in S}

RECURSIVE Pick(_, _, _)
\* the entries of `cands` whose position is in `keep`, in order
Pick(cands, keep, i) ==
    IF i > Len(cands) THEN <<>>
    ELSE (IF i \in keep THEN <<cands[i]>> ELSE <<>>) \o Pick(cands, keep, i + 1)

Entry(name, kind) == [name |-> name, kind |-> kind, ok |-> TRUE]

\* an entry that the read_dir iterator yields as an error
BadEntry == [name |-> <<"?">>, kind |-> "gone", ok |-> FALSE]

Readable(entries) == [readable |-> TRUE, entries |-> entries, error |-> "none"]
Unreadable(e) == [readable |-> FALSE, entries |-> <<>>, error |-> e]

----------------------------------------------------------------------------
(* ScanDir::is_match on every index and every three rule lists *)

MatchEntries ==
    << Entry(<<"a", ".", "b">>, "file"), Entry(<<"b">>, "file"),
       Entry(<<"a">>, "dir"), Entry(<<"b", ".", "a">>, "file") >>

MatchDirs == {Readable(Pick(MatchEntries, keep, 1)) : keep \in SUBSET (1..Len(MatchEntries))}

FileRules == {<<"b">>, <<"!", "b">>, <<"a", ".", "b">>, <<"!", "b", ".", "a">>}
FolderRules == {<<"a">>, <<"!", "a">>, <<"b">>, <<"!", "b">>}
ExtensionRules == {<<"a">>, <<"!", "a">>, <<"b">>, <<"!", "b">>}

\* DirContents::from_path of the tests
from_path(dir, follow_symlinks) ==
    from_path_with_timeout(dir, 30000, follow_symlinks, <<0>>, TRUE)

OthersOffMatch ==
    /\ world = Off /\ ctx = Off /\ once = Off /\ threads = Off /\ hist = Off /\ runs = Off
    /\ scan = Off /\ proc = Off /\ anc = Off /\ op = Off

InitMatch ==
    /\ cfg_test = TRUE
    /\ \E d \in MatchDirs :
          scandir = [pc |-> "building", dir_contents |-> from_path(d, TRUE).v,
                     files |-> <<>>, folders |-> <<>>, extensions |-> <<>>,
                     ret |-> FALSE]
    /\ OthersOffMatch

RuleCount(sd) == Len(sd.files) + Len(sd.folders) + Len(sd.extensions)

set_files(files) ==
    /\ scandir.pc = "building"
    /\ scandir' = [scandir EXCEPT !.files = files]
    /\ RuleCount(scandir') <= MaxRules
    /\ UNCHANGED beside_scandir

set_extensions(extensions) ==
    /\ scandir.pc = "building"
    /\ scandir' = [scandir EXCEPT !.extensions = extensions]
    /\ RuleCount(scandir') <= MaxRules
    /\ UNCHANGED beside_scandir

set_folders(folders) ==
    /\ scandir.pc = "building"
    /\ scandir' = [scandir EXCEPT !.folders = folders]
    /\ RuleCount(scandir') <= MaxRules
    /\ UNCHANGED beside_scandir

IsMatchCall ==
    /\ scandir.pc = "building"
    /\ scandir' = [scandir EXCEPT !.pc = "matched", !.ret = is_match(scandir)]
    /\ UNCHANGED beside_scandir

NextMatch ==
    \/ \E l \in SeqsUpTo(FileRules, MaxRules) : set_files(l)
    \/ \E l \in SeqsUpTo(ExtensionRules, MaxRules) : set_extensions(l)
    \/ \E l \in SeqsUpTo(FolderRules, MaxRules) : set_folders(l)
    \/ IsMatchCall

SpecMatch == InitMatch /\ [][NextMatch]_vars

\* the names a list negates, and the names it asks for
Negated(list) == {Rest(list[i]) : i \in {j \in 1..Len(list) : StartsWith(list[j], "!")}}
Wanted(list) == {list[i] : i \in {j \in 1..Len(list) : ~StartsWith(list[j], "!")}}

NegatedPresent(sd) ==
    \/ \E n \in Negated(sd.files) : n \in sd.dir_contents.file_names
    \/ \E n \in Negated(sd.folders) : <<n>> \in sd.dir_contents.folders
    \/ \E n \in Negated(sd.extensions) : n \in sd.dir_contents.extensions

WantedPresent(sd) ==
    \/ \E n \in Wanted(sd.files) : n \in sd.dir_contents.file_names
    \/ \E n \in Wanted(sd.folders) : <<n>> \in sd.dir_contents.folders
    \/ \E n \in Wanted(sd.extensions) : n \in sd.dir_contents.extensions

\* C6: is_match is true iff no '!'-negated entry of any of the three lists is
\* present in the index and at least one unprefixed entry of some list is
\* present; a negated entry that is present vetoes the positives of every list.
C6_IsMatchIff ==
    scandir.pc = "matched" =>
        (scandir.ret <=> (~NegatedPresent(scandir) /\ WantedPresent(scandir)))

\* a positive extension is present, a negated file of another list is present,
\* and the match is refused
C6_Witness ==
    /\ scandir.pc = "matched"
    /\ ~scandir.ret
    /\ \E n \in Wanted(scandir.extensions) : n \in scandir.dir_contents.extensions
    /\ Negated(scandir.extensions) = {}
    /\ \E n \in Negated(scandir.files) : n \in scandir.dir_contents.file_names

----------------------------------------------------------------------------
(* DirContents::from_path_with_timeout on every directory, budget and clock *)

\* the number of entries of a scanned directory
MaxEntries == 3

ScanEntries ==
    << Entry(<<"a", ".", "b">>, "file"), Entry(<<"d">>, "dir"),
       Entry(<<"l">>, "symlink_dir"), BadEntry, Entry(<<"s">>, "symlink_file"),
       Entry(<<".", "e">>, "file"), Entry(<<"g">>, "gone") >>

ScanDirs ==
    {Readable(Pick(ScanEntries, keep, 1)) :
        keep \in {k \in SUBSET (1..Len(ScanEntries)) : Cardinality(k) <= MaxEntries}}
    \cup {Unreadable("NotFound"), Unreadable("PermissionDenied")}

\* scan_timeout values, in milliseconds, and readings of the clock
Timeouts == {0, SCAN_TIMEOUT_DEFAULT}
Clocks == {<<0>>, <<SCAN_TIMEOUT_DEFAULT - 1>>, <<SCAN_TIMEOUT_DEFAULT>>}

InitScan ==
    /\ cfg_test \in BOOLEAN
    /\ \E d \in ScanDirs, t \in Timeouts, f \in BOOLEAN, c \in Clocks :
          scan = [pc |-> "call", dir |-> d, timeout |-> t, follow_symlinks |-> f,
                  clock |-> c, ret |-> Err("unset")]
    /\ world = Off /\ ctx = Off /\ once = Off /\ threads = Off /\ hist = Off /\ runs = Off
    /\ scandir = Off /\ proc = Off /\ anc = Off /\ op = Off

FromPathCall ==
    /\ scan.pc = "call"
    /\ scan' = [scan EXCEPT !.pc = "done",
                            !.ret = from_path_with_timeout(scan.dir, scan.timeout,
                                        scan.follow_symlinks, scan.clock, cfg_test)]
    /\ UNCHANGED beside_scan

NextScan == FromPathCall

SpecScan == InitScan /\ [][NextScan]_vars

\* C9: a directory scan returns an error only when the initial directory read
\* fails, and then that error; exceeding the time budget and unreadable
\* entries leave entries out of an index that is still returned as success.
C9_ErrorOnlyFromReadDir ==
    scan.pc = "done" =>
        /\ ~IsOk(scan.ret) <=> ~scan.dir.readable
        /\ ~IsOk(scan.ret) => scan.ret = Err(scan.dir.error)

\* the budget is spent at the first check of a directory that holds entries,
\* one of them unreadable, and the scan succeeds with an empty index
C9_Witness ==
    /\ scan.pc = "done"
    /\ ~cfg_test
    /\ scan.dir.readable
    /\ \E i \in 1..Len(scan.dir.entries) : ~scan.dir.entries[i].ok
    /\ \E i \in 1..Len(scan.dir.entries) : scan.dir.entries[i].ok
    /\ Elapsed(scan.clock, 0) >= scan.timeout
    /\ IsOk(scan.ret)
    /\ scan.ret.v.files = {} /\ scan.ret.v.folders = {}

----------------------------------------------------------------------------
(* The command executor: create_command, internal_exec_cmd, exec_timeout *)

\* the number of bytes a child writes to one of its streams
MaxOutput == 2

\* the bytes a child may write: 'h', the two bytes of U+00E9, and a byte that
\* no UTF-8 text holds
Bytes == {104, 195, 169, 255}

RECURSIVE Utf8Valid(_)
\* String::from_utf8 succeeds: every character is one byte below 0x80, or a
\* leading byte 0xC2..0xDF followed by one continuation byte 0x80..0xBF
\* (the longer forms start with bytes that Bytes does not hold)
Utf8Valid(b) ==
    IF b = <<>> THEN TRUE
    ELSE IF b[1] < 128 THEN Utf8Valid(Tail(b))
    ELSE IF b[1] >= 194 /\ b[1] <= 223
         THEN Len(b) >= 2 /\ b[2] >= 128 /\ b[2] <= 191 /\ Utf8Valid(Tail(Tail(b)))
    ELSE FALSE

\* String::from_utf8: the same bytes as a String, or an error
from_utf8(b) == IF Utf8Valid(b) THEN Ok(b) ELSE Err("Utf8Error")

CommandOutput(stdout, stderr) == [stdout |-> stdout, stderr |-> stderr]

\* what process.controlled_with_output().time_limit(..).terminate_for_timeout().wait()
\* gives back: Ok(Some(output)), Ok(None) on timeout, or an I/O error
Waited(kind, status, stdout, stderr) ==
    [kind |-> kind, status |-> status, stdout |-> stdout, stderr |-> stderr]

\* a mutation: the exit status is not looked at
exec_timeout_match_ignores_status(w) ==
    IF w.kind = "output"
    THEN IF ~IsOk(from_utf8(w.stdout)) THEN None
         ELSE IF ~IsOk(from_utf8(w.stderr)) THEN None
         ELSE Some(CommandOutput(from_utf8(w.stdout).v, from_utf8(w.stderr).v))
    ELSE None

\* the match on the result of wait() in exec_timeout
exec_timeout_match(w) ==
    IF w.kind = "output"
    THEN IF ~IsOk(from_utf8(w.stdout)) THEN None
         ELSE IF ~IsOk(from_utf8(w.stderr)) THEN None
         ELSE IF w.status # 0 THEN None
         ELSE Some(CommandOutput(from_utf8(w.stdout).v, from_utf8(w.stderr).v))
    ELSE None

\* the time a child runs, in milliseconds, and the exit statuses
RunTimes == {10, COMMAND_TIMEOUT_DEFAULT, 2 * COMMAND_TIMEOUT_DEFAULT}
ExitStatuses == {0, 1}

NoWait == Waited("none", 0, <<>>, <<>>)

InitExec ==
    /\ cfg_test \in BOOLEAN
    /\ proc = [pc |-> "create_command", time_limit |-> COMMAND_TIMEOUT_DEFAULT,
               which |-> "unset", spawn |-> "unset", child |-> "none",
               run_time |-> 0, waited |-> NoWait, ret |-> None]
    /\ world = Off /\ ctx = Off /\ once = Off /\ threads = Off /\ hist = Off /\ runs = Off
    /\ scandir = Off /\ scan = Off /\ anc = Off /\ op = Off

\* create_command(cmd).ok()?: which::which finds the binary or not
CreateCommand ==
    /\ proc.pc = "create_command"
    /\ \E found \in BOOLEAN :
          proc' = IF found
                  THEN [proc EXCEPT !.pc = "spawn", !.which = "found"]
                  ELSE [proc EXCEPT !.pc = "done", !.which = "not_found", !.ret = None]
    /\ UNCHANGED beside_proc

\* cmd.spawn(): the child starts, writing `out` and `err` and exiting with
\* `status` after `t` milliseconds if left alone; or spawn fails
Spawn ==
    /\ proc.pc = "spawn"
    /\ \/ proc' = [proc EXCEPT !.pc = "done", !.spawn = "failed", !.ret = None]
       \/ \E t \in RunTimes :
             proc' = [proc EXCEPT !.pc = "wait", !.spawn = "ok", !.child = "running",
                                  !.run_time = t]
    /\ UNCHANGED beside_proc

\* wait() returns the output of a child that exits within the limit
WaitExited ==
    /\ proc.pc = "wait"
    /\ proc.run_time <= proc.time_limit
    /\ \E status \in ExitStatuses, out \in SeqsUpTo(Bytes, MaxOutput),
          err \in SeqsUpTo(Bytes, MaxOutput) :
          proc' = [proc EXCEPT !.pc = "match", !.child = "exited",
                               !.waited = Waited("output", status, out, err)]
    /\ UNCHANGED beside_proc

\* wait() terminates a child that is still running when the limit is reached
WaitTimedOut ==
    /\ proc.pc = "wait"
    /\ proc.run_time >= proc.time_limit
    /\ proc' = [proc EXCEPT !.pc = "match", !.child = "terminated",
                            !.waited = Waited("timeout", 0, <<>>, <<>>)]
    /\ UNCHANGED beside_proc

\* wait() fails with an I/O error
WaitFailed ==
    /\ proc.pc = "wait"
    /\ \E c \in {"running", "exited"} :
          proc' = [proc EXCEPT !.pc = "match", !.child = c,
                               !.waited = Waited("error", 0, <<>>, <<>>)]
    /\ UNCHANGED beside_proc

ExecTimeoutReturn ==
    /\ proc.pc = "match"
    /\ proc' = [proc EXCEPT !.pc = "done", !.ret = exec_timeout_match(proc.waited)]
    /\ UNCHANGED beside_proc

NextExec ==
    \/ CreateCommand
    \/ Spawn
    \/ WaitExited
    \/ WaitTimedOut
    \/ WaitFailed
    \/ ExecTimeoutReturn

SpecExec == InitExec /\ [][NextExec]_vars

\* the binary was found, the child was spawned, it completed within the limit
\* with status zero and both of its streams are valid UTF-8
ExecSucceeded ==
    /\ proc.which = "found"
    /\ proc.spawn = "ok"
    /\ proc.waited.kind = "output"
    /\ proc.waited.status = 0
    /\ Utf8Valid(proc.waited.stdout)
    /\ Utf8Valid(proc.waited.stderr)

\* C7: command execution returns a CommandOutput iff the binary is resolved,
\* the child is spawned, completes within the time limit, exits with status
\* zero and both captured streams are valid UTF-8, and then stdout and stderr
\* are exactly the captured text; in every other case the result is the one
\* absent value.
C7_OutputIffSuccess ==
    proc.pc = "done" =>
        /\ IsSome(proc.ret) <=> ExecSucceeded
        /\ IsSome(proc.ret) =>
              /\ Unwrap(proc.ret).stdout = proc.waited.stdout
              /\ Unwrap(proc.ret).stderr = proc.waited.stderr
        /\ ~IsSome(proc.ret) => proc.ret = None

\* a child that exits with status zero in time, having written a two-byte
\* character to stdout and a letter to stderr, gives exactly that text
C7_Witness ==
    /\ proc.pc = "done"
    /\ proc.waited.kind = "output"
    /\ proc.waited.stdout = <<195, 169>>
    /\ proc.waited.stderr = <<104>>
    /\ proc.ret = Some(CommandOutput(<<195, 169>>, <<104>>))

----------------------------------------------------------------------------
(* Context: construction and configuration *)

\* how an operation ends: by returning a value, or by a panic
Returned(v) == [outcome |-> "returned", v |-> v]
Panicked(msg) == [outcome |-> "panicked", v |-> msg]

\* a toml::Table, as far as the root configuration reads it: each key is
\* absent or holds a value
Table(scan_timeout, command_timeout, follow_symlinks, add_newline) ==
    [scan_timeout |-> scan_timeout, command_timeout |-> command_timeout,
     follow_symlinks |-> follow_symlinks, add_newline |-> add_newline]

EmptyTable == Table(None, None, None, None)

OrDefault(o, d) == IF IsSome(o) THEN Unwrap(o) ELSE d

\* StarshipRootConfig::default()
DefaultRootConfig ==
    [scan_timeout |-> SCAN_TIMEOUT_DEFAULT, command_timeout |-> COMMAND_TIMEOUT_DEFAULT,
     add_newline |-> TRUE, follow_symlinks |-> TRUE]

\* StarshipRootConfig::load(&table): #[serde(default)] fills what is absent
Load(table) ==
    [scan_timeout |-> OrDefault(table.scan_timeout, DefaultRootConfig.scan_timeout),
     command_timeout |-> OrDefault(table.command_timeout, DefaultRootConfig.command_timeout),
     add_newline |-> OrDefault(table.add_newline, DefaultRootConfig.add_newline),
     follow_symlinks |-> OrDefault(table.follow_symlinks, DefaultRootConfig.follow_symlinks)]

\* Path::starts_with(base): `base` is a prefix of the components of `path`
PathStartsWith(path, base) ==
    Len(base) <= Len(path) /\ SubSeq(path, 1, Len(base)) = base

\* Path::strip_prefix(base)
StripPrefix(path, base) ==
    IF PathStartsWith(path, base) THEN Ok(SubSeq(path, Len(base) + 1, Len(path)))
    ELSE Err("StripPrefixError")

\* PathBuf::join / push of a relative or absolute path
Join(path, more) ==
    IF more # <<>> /\ more[1] = <<"/">> THEN more ELSE path \o more

\* a mutation: the tilde is left as it is
expand_tilde_not_at_all(dir, home) == Returned(dir)

\* Context::expand_tilde; `home` is what utils::home_dir() gives
expand_tilde(dir, home) ==
    IF PathStartsWith(dir, PathNew(<<"~">>))
    THEN IF ~IsOk(StripPrefix(dir, PathNew(<<"~">>))) THEN Panicked("strip_prefix unwrap")
         ELSE IF ~IsSome(home) THEN Panicked("home_dir unwrap")
         ELSE Returned(Join(Unwrap(home), StripPrefix(dir, PathNew(<<"~">>)).v))
    ELSE Returned(dir)

RECURSIVE Resolve(_, _, _)
\* follow the components of `rest` from the directory `at`, replacing every
\* symlink met by its target; nothing when a component does not exist
Resolve(fs, at, rest) ==
    IF rest = <<>> THEN Some(at)
    ELSE LET c == Head(rest)
             next == IF c = <<".">> THEN at
                     ELSE IF c = <<".", ".">>
                          THEN (IF Len(at) > 1 THEN SubSeq(at, 1, Len(at) - 1) ELSE at)
                     ELSE Append(at, c)
             real == IF \E l \in fs.links : l[1] = next
                     THEN (CHOOSE l \in fs.links : l[1] = next)[2]
                     ELSE next
         IN IF real \in fs.dirs THEN Resolve(fs, real, Tail(rest)) ELSE None

\* a mutation: the path is made absolute and checked, its symlinks are kept
canonicalize_keeps_links(fs, path) ==
    IF path = <<>> THEN None
    ELSE IF path[1] = <<"/">>
         THEN (IF IsSome(Resolve(fs, <<<<"/">>>>, Tail(path))) THEN Some(path) ELSE None)
    ELSE (IF IsSome(Resolve(fs, fs.cwd, path)) THEN Some(fs.cwd \o path) ELSE None)

\* dunce::canonicalize(path).ok()
canonicalize(fs, path) ==
    IF path = <<>> THEN None
    ELSE IF path[1] = <<"/">> THEN Resolve(fs, <<<<"/">>>>, Tail(path))
    ELSE Resolve(fs, fs.cwd, path)

\* the normalisation of the properties in new_with_shell_and_path
NormalizeProperties(properties) ==
    [properties EXCEPT
        !.pipestatus = IF properties.pipestatus = Some(<< <<>> >>) THEN None ELSE @,
        !.status_code = IF properties.status_code = Some(<<>>) THEN None ELSE @]

\* Context::new_with_shell_and_path; `w` holds what the constructor reads from
\* outside: the configuration file, the home directory, the file system and,
\* in a test build, whether a temporary directory can be made
new_with_shell_and_path(properties, shell, target, path, logical_path, env, w, test) ==
    LET expanded == expand_tilde(path, w.home)
    IN IF expanded.outcome = "panicked" THEN expanded
       ELSE IF test /\ ~w.tempdir_ok THEN Panicked("TempDir::new unwrap")
       ELSE Returned(
            [config |-> w.config_file,
             properties |-> NormalizeProperties(properties),
             current_dir |-> OrDefault(canonicalize(w.fs, expanded.v), expanded.v),
             logical_dir |-> logical_path,
             dir_contents |-> None,
             repo |-> None,
             shell |-> shell,
             target |-> target,
             width |-> properties.terminal_width,
             env |-> env,
             cmd |-> {},
             root_config |-> IF IsSome(w.config_file) THEN Load(Unwrap(w.config_file))
                             ELSE DefaultRootConfig])

\* a mutation: the caches are emptied with the configuration
set_config_resets_caches(c, config) ==
    [c EXCEPT !.root_config = Load(config), !.config = Some(config),
              !.dir_contents = None, !.repo = None]

\* Context::set_config
set_config(c, config) ==
    [c EXCEPT !.root_config = Load(config), !.config = Some(config)]

----------------------------------------------------------------------------
(* Context: running commands *)

\* the number of alternatives given to exec_cmds_return_first
MaxCommands == 2

Space == <<" ">>

RECURSIVE JoinWords(_)
\* .collect::<Vec<String>>().join(" ")
JoinWords(words) ==
    IF words = <<>> THEN <<>>
    ELSE IF Len(words) = 1 THEN words[1]
    ELSE words[1] \o Space \o JoinWords(Tail(words))

\* utils::display_command
display_command(cmd, args) == JoinWords(<<cmd>> \o args)

W_v == <<"v">>
W_version == <<"v", "e", "r", "s", "i", "o", "n">>
W_python == <<"p", "y", "t", "h", "o", "n">>
W_dashversion == <<"-", "-", "v", "e", "r", "s", "i", "o", "n">>
W_x == <<"x">>

W_java == <<"j", "a", "v", "a">>
W_slashjava == <<"/", "j", "a", "v", "a">>
W_Xinternalversion ==
    <<"-", "X", "i", "n", "t", "e", "r", "n", "a", "l", "v", "e", "r", "s", "i", "o", "n">>
W_erl == <<"e", "r", "l">>
W_noshell == <<"-", "n", "o", "s", "h", "e", "l", "l">>
W_eval == <<"-", "e", "v", "a", "l">>
W_dummy_command ==
    <<"d", "u", "m", "m", "y", "_", "c", "o", "m", "m", "a", "n", "d">>
W_v_version == W_v \o Space \o W_version

\* str::ends_with, str::starts_with
ends_with(str, suffix) ==
    Len(suffix) <= Len(str) /\ SubSeq(str, Len(str) - Len(suffix) + 1, Len(str)) = suffix
starts_with(str, prefix) ==
    Len(prefix) <= Len(str) /\ SubSeq(str, 1, Len(prefix)) = prefix

JavaBanner ==
    <<"O", "p", "e", "n", "J", "D", "K", " ", "6", "4", "-", "B", "i", "t", " ", "S",
       "e", "r", "v", "e", "r", " ", "V", "M", " ", "(", "1", "3", ".", "0", ".", "2",
       "+", "8", ")", " ", "f", "o", "r", " ", "b", "s", "d", "-", "a", "m", "d", "6",
       "4", " ", "J", "R", "E", " ", "(", "1", "3", ".", "0", ".", "2", "+", "8", ")",
       ",", " ", "b", "u", "i", "l", "t", " ", "o", "n", " ", "F", "e", "b", " ", " ",
       "6", " ", "2", "0", "2", "0", " ", "0", "2", ":", "0", "7", ":", "5", "2", " ",
       "b", "y", " ", "\"", "b", "r", "e", "w", "\"", " ", "w", "i", "t", "h", " ", "c",
       "l", "a", "n", "g", " ", "4", ".", "2", ".", "1", " ", "C", "o", "m", "p", "a",
       "t", "i", "b", "l", "e", " ", "A", "p", "p", "l", "e", " ", "L", "L", "V", "M",
       " ", "1", "1", ".", "0", ".", "0", " ", "(", "c", "l", "a", "n", "g", "-", "1",
       "1", "0", "0", ".", "0", ".", "3", "3", ".", "1", "7", ")">>

\* utils::mock_cmd, five arms of its match in their order: "dummy_command",
\* the line that ends with "java -Xinternalversion", "python --version",
\* "v version" and the line that starts with "erl -noshell -eval"
mock_cmd(cmd, args) ==
    LET command == display_command(cmd, args)
    IN IF command = W_dummy_command
       THEN Some(Some(CommandOutput(
        <<"s", "t", "d", "o", "u", "t", " ", "o", "k", "!", "\n">>,
        <<"s", "t", "d", "e", "r", "r", " ", "o", "k", "!", "\n">>)))
       ELSE IF ends_with(command, JoinWords(<<W_java, W_Xinternalversion>>))
       THEN Some(Some(CommandOutput(JavaBanner, <<>>)))
       ELSE IF command = JoinWords(<<W_python, W_dashversion>>)
       THEN Some(None)
       ELSE IF command = JoinWords(<<W_v, W_version>>)
       THEN Some(Some(CommandOutput(
                <<"V", " ", "0", ".", "2", " ", "3", "0", "c", "0", "6", "5", "9">>, <<>>)))
       ELSE IF starts_with(command, JoinWords(<<W_erl, W_noshell, W_eval>>))
       THEN Some(Some(CommandOutput(<<"2", "2", ".", "1", ".", "3", "\n">>, <<>>)))
       ELSE None

\* HashMap::get(key).cloned() on a map held as a set of <<key, value>> pairs
MapGet(map, key) ==
    IF \E kv \in map : kv[1] = key THEN Some((CHOOSE kv \in map : kv[1] = key)[2])
    ELSE None

\* what happens outside the process when a command is run: whether which::which
\* finds the binary, whether spawn succeeds, and what wait() gives back
Behaviour(found, spawned, waited) ==
    [found |-> found, spawned |-> spawned, waited |-> waited]

\* create_command(cmd).ok()? followed by exec_timeout
exec_real(b) ==
    IF ~b.found THEN None
    ELSE IF ~b.spawned THEN None
    ELSE exec_timeout_match(b.waited)

\* Context::exec_cmd; `run` gives the behaviour of each command outside
exec_cmd(c, cmd, args, run, test) ==
    LET command == display_command(cmd, args)
        mocked == IF IsSome(MapGet(c.cmd, command)) THEN MapGet(c.cmd, command)
                  ELSE mock_cmd(cmd, args)
    IN IF test /\ IsSome(mocked) THEN Unwrap(mocked)
       ELSE exec_real(run[<<cmd>> \o args])

RECURSIVE exec_cmds_return_first(_, _, _, _)
\* Context::exec_cmds_return_first: find_map over the alternatives; attempt[0]
\* is an index into the alternative
exec_cmds_return_first(c, commands, run, test) ==
    IF commands = <<>> THEN Returned(None)
    ELSE LET attempt == Head(commands)
         IN IF Len(attempt) = 0 THEN Panicked("index out of bounds")
            ELSE LET out == exec_cmd(c, attempt[1], Tail(attempt), run, test)
                 IN IF IsSome(out) THEN Returned(out)
                    ELSE exec_cmds_return_first(c, Tail(commands), run, test)

----------------------------------------------------------------------------
(* The entry points of the core, each called on every input *)

PathStrings ==
    { <<"~">>, <<"~", "/", "x">>, <<"~", "x">>, <<"/", "n", "o">>,
      <<"/", "a", "/", "s", "/", "y">>, <<"x">> }

\* a file system with a home directory and a symlink /a/s to /a/r
FileSystem ==
    [dirs |-> { PathNew(<<"/">>), PathNew(<<"/", "h">>), PathNew(<<"/", "h", "/", "x">>),
                PathNew(<<"/", "a">>), PathNew(<<"/", "a", "/", "r">>),
                PathNew(<<"/", "a", "/", "r", "/", "y">>) },
     links |-> { <<PathNew(<<"/", "a", "/", "s">>), PathNew(<<"/", "a", "/", "r">>)>> },
     cwd |-> PathNew(<<"/", "h">>)]

Homes == {None, Some(PathNew(<<"/", "h">>))}

ConfigFiles == {None, Some(EmptyTable), Some(Table(Some(0), None, Some(FALSE), None))}

PropertySets ==
    { [status_code |-> sc, pipestatus |-> ps, terminal_width |-> 80] :
        sc \in {None, Some(<<>>), Some(<<"1">>)},
        ps \in {None, Some(<< <<>> >>), Some(<< <<"0">>, <<"1">> >>)} }

OutsideOfNew ==
    { [config_file |-> cf, home |-> h, fs |-> FileSystem, tempdir_ok |-> t] :
        cf \in ConfigFiles, h \in Homes, t \in BOOLEAN }

Attempts == { <<>>, <<W_v, W_version>>, <<W_python, W_dashversion>>, <<W_x>> }

Behaviours ==
    { Behaviour(FALSE, FALSE, NoWait),
      Behaviour(TRUE, TRUE, Waited("timeout", 0, <<>>, <<>>)),
      Behaviour(TRUE, TRUE, Waited("output", 1, <<104>>, <<>>)),
      Behaviour(TRUE, TRUE, Waited("output", 0, <<104>>, <<>>)) }

\* a Context as the constructor leaves it, for the calls that need one
DefaultContext ==
    new_with_shell_and_path(
        [status_code |-> None, pipestatus |-> None, terminal_width |-> 80],
        "Unknown", "Main", PathNew(<<"/", "h">>), PathNew(<<"/", "h">>), {},
        [config_file |-> None, home |-> Some(PathNew(<<"/", "h">>)),
         fs |-> FileSystem, tempdir_ok |-> TRUE], FALSE).v

InitOps ==
    /\ cfg_test \in BOOLEAN
    /\ op = [pc |-> "idle", name |-> "none", outcome |-> "none"]
    /\ world = Off /\ ctx = Off /\ once = Off /\ threads = Off /\ hist = Off /\ runs = Off
    /\ scandir = Off /\ scan = Off /\ proc = Off /\ anc = Off

Finish(name, input, result) ==
    [pc |-> "done", name |-> name, input |-> input, outcome |-> result.outcome,
     ret |-> result.v]

CallNew ==
    /\ op.pc = "idle"
    /\ \E p \in PathStrings, props \in PropertySets, w \in OutsideOfNew :
          op' = Finish("new_with_shell_and_path", [path |-> p, home |-> w.home],
                       new_with_shell_and_path(props, "Unknown", "Main", PathNew(p),
                                               PathNew(p), {}, w, cfg_test))
    /\ UNCHANGED beside_op

CallFromPath ==
    /\ op.pc = "idle"
    /\ \E d \in ScanDirs, t \in Timeouts, f \in BOOLEAN, c \in Clocks :
          op' = Finish("from_path_with_timeout", d,
                       Returned(from_path_with_timeout(d, t, f, c, cfg_test)))
    /\ UNCHANGED beside_op

CallExec ==
    /\ op.pc = "idle"
    /\ \E b \in Behaviours :
          op' = Finish("internal_exec_cmd", b, Returned(exec_real(b)))
    /\ UNCHANGED beside_op

CallExecCmdsReturnFirst ==
    /\ op.pc = "idle"
    /\ \E commands \in SeqsUpTo(Attempts, MaxCommands),
          run \in [Attempts \ {<<>>} -> Behaviours] :
          op' = Finish("exec_cmds_return_first", commands,
                       exec_cmds_return_first(DefaultContext, commands, run, cfg_test))
    /\ UNCHANGED beside_op

NextOps ==
    \/ CallNew
    \/ CallFromPath
    \/ CallExec
    \/ CallExecCmdsReturnFirst

SpecOps == InitOps /\ [][NextOps]_vars

\* C8: no operation of the core aborts the process: Context construction
\* (with tilde expansion), directory scanning, command execution and
\* exec_cmds_return_first all finish by returning a value.
C8_NoOperationPanics ==
    op.pc = "done" => op.outcome = "returned"

----------------------------------------------------------------------------
(* ScanAncestors::scan *)

\* the number of directories between the root and the starting path
MaxDepth == 2

WINDOWS_DEVICE_ID == 42

Root == <<"/">>

\* the directories of the chain, by depth, and the one marker name
ChainNames == << <<"a">>, <<"b">>, <<"c">>, <<"d">> >>
Marker == <<"m">>

\* the path of the directory at depth k of the chain (0 is the root)
ChainPath(k) == <<Root>> \o SubSeq(ChainNames, 1, k)

\* A file system along the chain: levels[k + 1] describes depth k by the device
\* it is on (nothing when the directory does not exist) and by what the name
\* Marker is inside it.  The nodes are <<path, kind, device>>.
Nodes(levels) ==
    {<<ChainPath(k), "dir", Unwrap(levels[k + 1].dev)>> :
        k \in {j \in 0..(Len(levels) - 1) : IsSome(levels[j + 1].dev)}}
    \cup
    {<<Append(ChainPath(k), Marker), levels[k + 1].marker, Unwrap(levels[k + 1].dev)>> :
        k \in {j \in 0..(Len(levels) - 1) :
                 IsSome(levels[j + 1].dev) /\ levels[j + 1].marker # "absent"}}

\* a relative path is looked up from the working directory, the root; the
\* empty path names nothing
Absolute(path) == IF path # <<>> /\ path[1] = Root THEN path ELSE <<Root>> \o path

Lookup(nodes, path) ==
    IF path = <<>> THEN {} ELSE {n \in nodes : n[1] = Absolute(path)}

\* a mutation: whatever exists under the name counts as a file
is_file_of_any_kind(nodes, path) == Lookup(nodes, path) # {}

\* Path::is_file, Path::is_dir
is_file(nodes, path) == \E n \in Lookup(nodes, path) : n[2] = "file"
path_is_dir(nodes, path) == \E n \in Lookup(nodes, path) : n[2] = "dir"

\* a mutation: a path that does not exist has the device of its nearest
\* existing ancestor
device_id_of_nearest_ancestor(nodes, platform, path) ==
    IF platform = "windows" THEN Some(WINDOWS_DEVICE_ID)
    ELSE LET found == {n \in 1..Len(path) : Lookup(nodes, SubSeq(path, 1, n)) # {}}
         IN IF found = {} THEN None
            ELSE Some((CHOOSE n \in Lookup(nodes, SubSeq(path, 1, SetMax(found))) : TRUE)[3])

\* PathExt::device_id: a constant on Windows, the device of the metadata
\* elsewhere, nothing when the metadata cannot be read
device_id(nodes, platform, path) ==
    IF platform = "windows" THEN Some(WINDOWS_DEVICE_ID)
    ELSE IF Lookup(nodes, path) = {} THEN None
    ELSE Some((CHOOSE n \in Lookup(nodes, path) : TRUE)[3])

\* a mutation: pop always reports that it went up
CanPop_always(buf) == TRUE

\* PathBuf::pop: false, and nothing done, when the path has no parent
CanPop(buf) == buf # <<>> /\ buf # <<Root>>
Pop(buf) == IF CanPop(buf) THEN SubSeq(buf, 1, Len(buf) - 1) ELSE buf

\* a mutation: the device of the level is never compared
OnOtherDevice_never(nodes, platform, initial_device_id, buf) == FALSE

\* initial_device_id != buf.device_id()
OnOtherDevice(nodes, platform, initial_device_id, buf) ==
    initial_device_id # device_id(nodes, platform, buf)

LevelSets(depth) ==
    {levels \in [1..(depth + 1) ->
                    [dev : {None, Some(1), Some(2)}, marker : {"absent", "file", "dir"}]] :
        /\ IsSome(levels[1].dev)
        /\ \A k \in 1..depth : ~IsSome(levels[k].dev) => ~IsSome(levels[k + 1].dev)
        /\ \A k \in 1..(depth + 1) : ~IsSome(levels[k].dev) => levels[k].marker = "absent"}

MarkerLists == {<<>>, <<Marker>>}

InitAnc ==
    /\ cfg_test \in BOOLEAN
    /\ \E levels \in LevelSets(MaxDepth), files \in MarkerLists, folders \in MarkerLists,
          platform \in {"linux", "windows"}, relative \in BOOLEAN :
          anc = [pc |-> "start",
                 nodes |-> Nodes(levels),
                 platform |-> platform,
                 path |-> IF relative THEN Tail(ChainPath(MaxDepth)) ELSE ChainPath(MaxDepth),
                 files |-> files,
                 folders |-> folders,
                 initial_device_id |-> None,
                 buf |-> <<>>,
                 k |-> 0,
                 probes |-> <<>>,
                 examined |-> <<>>,
                 ret |-> None]
    /\ world = Off /\ ctx = Off /\ once = Off /\ threads = Off /\ hist = Off /\ runs = Off
    /\ scandir = Off /\ scan = Off /\ proc = Off /\ op = Off

\* let initial_device_id = path.device_id(); path.clone_into(&mut buf)
AncStart ==
    /\ anc.pc = "start"
    /\ anc' = [anc EXCEPT !.pc = "loop",
                          !.initial_device_id = device_id(anc.nodes, anc.platform, anc.path),
                          !.buf = anc.path]
    /\ UNCHANGED beside_anc

\* the top of the loop: break when the level is on another device
AncCheckDevice ==
    /\ anc.pc = "loop"
    /\ anc' = IF OnOtherDevice(anc.nodes, anc.platform, anc.initial_device_id, anc.buf)
              THEN [anc EXCEPT !.pc = "done", !.ret = None,
                               !.examined = Append(@, anc.buf)]
              ELSE [anc EXCEPT !.pc = "files", !.k = 1,
                               !.examined = Append(@, anc.buf)]
    /\ UNCHANGED beside_anc

\* one turn of `for file in self.files`: push, is_file, pop
AncProbeFile ==
    /\ anc.pc = "files"
    /\ anc.k <= Len(anc.files)
    /\ LET pushed == Join(anc.buf, PathNew(anc.files[anc.k]))
           seen == Append(anc.probes, [at |-> anc.buf, probe |-> pushed, as |-> "file"])
       IN anc' = IF is_file(anc.nodes, pushed)
                 THEN [anc EXCEPT !.pc = "done", !.buf = Pop(pushed),
                                  !.ret = Some(Pop(pushed)), !.probes = seen]
                 ELSE [anc EXCEPT !.buf = Pop(pushed), !.k = @ + 1, !.probes = seen]
    /\ UNCHANGED beside_anc

\* the files are exhausted: on to `for folder in self.folders`
AncFilesDone ==
    /\ anc.pc = "files"
    /\ anc.k > Len(anc.files)
    /\ anc' = [anc EXCEPT !.pc = "folders", !.k = 1]
    /\ UNCHANGED beside_anc

\* one turn of `for folder in self.folders`: push, is_dir, pop
AncProbeFolder ==
    /\ anc.pc = "folders"
    /\ anc.k <= Len(anc.folders)
    /\ LET pushed == Join(anc.buf, PathNew(anc.folders[anc.k]))
           seen == Append(anc.probes, [at |-> anc.buf, probe |-> pushed, as |-> "dir"])
       IN anc' = IF path_is_dir(anc.nodes, pushed)
                 THEN [anc EXCEPT !.pc = "done", !.buf = Pop(pushed),
                                  !.ret = Some(Pop(pushed)), !.probes = seen]
                 ELSE [anc EXCEPT !.buf = Pop(pushed), !.k = @ + 1, !.probes = seen]
    /\ UNCHANGED beside_anc

\* if !buf.pop() { break }
AncAscend ==
    /\ anc.pc = "folders"
    /\ anc.k > Len(anc.folders)
    /\ anc' = IF CanPop(anc.buf)
              THEN [anc EXCEPT !.pc = "loop", !.buf = Pop(anc.buf), !.k = 0]
              ELSE [anc EXCEPT !.pc = "done", !.ret = None, !.k = 0]
    /\ UNCHANGED beside_anc

NextAnc ==
    \/ AncStart
    \/ AncCheckDevice
    \/ AncProbeFile
    \/ AncFilesDone
    \/ AncProbeFolder
    \/ AncAscend

SpecAnc == InitAnc /\ [][NextAnc]_vars

\* the starting path and its ancestors, and those of them that are on another
\* device than the starting path
AncestorsOf(path) == {SubSeq(path, 1, n) : n \in 0..Len(path)}

Foreign ==
    {q \in AncestorsOf(anc.path) :
        device_id(anc.nodes, anc.platform, q) # device_id(anc.nodes, anc.platform, anc.path)}

\* q is p or an ancestor of p
AtOrAbove(q, p) == PathStartsWith(p, q)

\* C10: the ancestor scan never crosses a device boundary: once the level
\* examined is on another device than the starting path the walk stops and
\* returns nothing; no marker is probed at that level or above it, and no
\* such level is returned, even if a marker lies there.
C10_NeverCrossesDevice ==
    /\ \A i \in 1..Len(anc.probes) : \A q \in Foreign : ~AtOrAbove(anc.probes[i].at, q)
    /\ IsSome(anc.ret) => \A q \in Foreign : ~AtOrAbove(Unwrap(anc.ret), q)
    /\ (anc.pc = "done" /\ \E i \in 1..Len(anc.examined) : anc.examined[i] \in Foreign)
          => anc.ret = None

\* the walk went up from the start, met a level on another device that holds
\* the marker file asked for, and returned nothing
C10_Witness ==
    /\ anc.pc = "done"
    /\ anc.platform = "linux"
    /\ anc.ret = None
    /\ anc.files = <<Marker>>
    /\ Len(anc.probes) > 0
    /\ \E q \in Foreign : q = anc.buf /\ is_file(anc.nodes, Append(q, Marker))

----------------------------------------------------------------------------
(* Context: the two write-once caches, shared by concurrent callers *)

\* the number of calls of dir_contents() and get_repo() made on the Context
MaxCalls == 3
\* the number of times the directory or the repository changes outside
MaxChanges == 1

Threads == {"t1", "t2"}
Cells == {"dir_contents", "repo"}

\* the directory behind current_dir, at different times
CtxDirs ==
    { Unreadable("NotFound"),
      Readable(<< Entry(<<"a", ".", "b">>, "file") >>),
      Readable(<< Entry(<<"a", ".", "b">>, "file"), Entry(<<"l">>, "symlink_dir") >>) }

\* a repository found above current_dir: its .git directory, its work tree
\* (nothing for a bare repository), the branch HEAD names, core.fsmonitor
GitRepo(git_dir, workdir, head, fsmonitor) ==
    [git_dir |-> git_dir, workdir |-> workdir, head |-> head, fsmonitor |-> fsmonitor]

CtxRepos ==
    { None,
      Some(GitRepo(PathNew(<<"/", "h", "/", ".", "g">>), Some(PathNew(<<"/", "h">>)),
                   Some(<<"m">>), Some(TRUE))),
      Some(GitRepo(PathNew(<<"/", "h">>), None, None, None)) }

\* the initializer of get_repo: discovery from current_dir, then the summary
discover(found) ==
    IF ~IsSome(found) THEN Err("NoGitRepository")
    ELSE LET r == Unwrap(found)
         IN Ok([repo |-> r.git_dir,
                branch |-> r.head,
                workdir |-> r.workdir,
                path |-> r.git_dir,
                remote |-> IF IsSome(r.head) THEN Some(<<"o">>) ELSE None,
                fs_monitor_value_is_true |-> OrDefault(r.fsmonitor, FALSE),
                kind |-> IF IsSome(r.workdir) THEN "WorkTree" ELSE "Bare"])

\* a mutation: the scan ignores the configuration and uses the defaults
scan_current_dir_with_defaults(c, w, test) ==
    from_path_with_timeout(w.dir, DefaultRootConfig.scan_timeout,
                           DefaultRootConfig.follow_symlinks, w.clock, test)

\* the initializer of dir_contents
scan_current_dir(c, w, test) ==
    from_path_with_timeout(w.dir, c.root_config.scan_timeout,
                           c.root_config.follow_symlinks, w.clock, test)

Initializer(x, c, w, test) ==
    IF x = "dir_contents" THEN scan_current_dir(c, w, test) ELSE discover(w.repo)

\* a mutation: the cell is written without synchronisation, so that a caller
\* that finds it empty runs its initializer even while another one runs
get_or_init_unsynchronised(state) ==
    IF state = "complete" THEN "hit" ELSE "init"

\* OnceLock::get_or_init, by the state of the cell's Once: the value is there,
\* or this caller runs the initializer, or another caller is running it and
\* this one waits for it
get_or_init(state) ==
    IF state = "complete" THEN "hit"
    ELSE IF state = "incomplete" THEN "init"
    ELSE "wait"

\* a mutation: a cached failure is not kept, discovery is tried again
get_repo_retries_failure(c, state) ==
    IF state = "complete" /\ ~IsOk(Unwrap(c.repo)) THEN "init" ELSE get_or_init(state)

\* Context::get_repo: self.repo.get_or_init(..)
get_repo(c, state) == get_or_init(state)

\* a mutation: the directory is scanned on every call
dir_contents_rescans(c, state) ==
    IF state = "running" THEN "wait" ELSE "init"

\* Context::dir_contents: self.dir_contents.get_or_init(..)
dir_contents(c, state) == get_or_init(state)

Accessor(x, c, state) ==
    IF x = "dir_contents" THEN dir_contents(c, state) ELSE get_repo(c, state)

\* the last step taken and the cell it was about
Last(act, x) == [act |-> act, cell |-> x]

Idle == [pc |-> "idle", cell |-> "none", val |-> None, ret |-> None]

AllIdle == \A t \in Threads : threads[t].pc = "idle"

\* the tables given to set_config
ConfigTables ==
    { Table(Some(0), None, None, None), Table(None, None, Some(FALSE), Some(TRUE)) }

InitCtx ==
    /\ cfg_test \in BOOLEAN
    /\ \E d \in CtxDirs, r \in CtxRepos :
          world = [dir |-> d, repo |-> r, clock |-> <<0>>]
    /\ ctx = new_with_shell_and_path(
                 [status_code |-> None, pipestatus |-> None, terminal_width |-> 80],
                 "Unknown", "Main", PathNew(<<"/", "a", "/", "s", "/", "y">>),
                 PathNew(<<"/", "a", "/", "s", "/", "y">>), {},
                 [config_file |-> None, home |-> Some(PathNew(<<"/", "h">>)),
                  fs |-> FileSystem, tempdir_ok |-> TRUE], cfg_test).v
    /\ once = [x \in Cells |-> "incomplete"]
    /\ threads = [t \in Threads |-> Idle]
    /\ hist = [calls |-> 0, changes |-> 0, last |-> Last("none", "none"),
               inits |-> [x \in Cells |-> 0],
               stores |-> [x \in Cells |-> 0],
               returned |-> [x \in Cells |-> {}]]
    /\ runs = Off
    /\ scandir = Off /\ scan = Off /\ proc = Off /\ anc = Off /\ op = Off

\* a caller enters dir_contents() or get_repo(): it gets the cached result, or
\* starts the initializer, or waits for the caller that runs it
Call(t, x) ==
    /\ threads[t].pc = "idle"
    /\ hist.calls < MaxCalls
    /\ LET path == Accessor(x, ctx, once[x])
       IN \/ /\ path = "hit"
             /\ threads' = [threads EXCEPT ![t] = [Idle EXCEPT !.ret = ctx[x]]]
             /\ hist' = [hist EXCEPT !.calls = @ + 1, !.last = Last("hit", x),
                                     !.returned[x] = @ \cup {Unwrap(ctx[x])}]
             /\ UNCHANGED once
          \/ /\ path = "init"
             /\ threads' = [threads EXCEPT ![t] = [Idle EXCEPT !.pc = "init", !.cell = x]]
             /\ once' = [once EXCEPT ![x] = "running"]
             /\ hist' = [hist EXCEPT !.calls = @ + 1, !.last = Last("call", x)]
          \/ /\ path = "wait"
             /\ threads' = [threads EXCEPT ![t] = [Idle EXCEPT !.pc = "wait", !.cell = x]]
             /\ hist' = [hist EXCEPT !.calls = @ + 1, !.last = Last("call", x)]
             /\ UNCHANGED once
    /\ UNCHANGED <<world, ctx>>
    /\ UNCHANGED beside_ctx

\* the initializer runs: it reads the configuration and the world as they are
RunInitializer(t) ==
    /\ threads[t].pc = "init"
    /\ LET x == threads[t].cell
       IN /\ threads' = [threads EXCEPT ![t].pc = "store",
                                        ![t].val = Some(Initializer(x, ctx, world, cfg_test))]
          /\ hist' = [hist EXCEPT !.inits[x] = @ + 1, !.last = Last("init", x)]
    /\ UNCHANGED <<world, ctx, once>>
    /\ UNCHANGED beside_ctx

\* the result of the initializer is put in the cell and returned
Store(t) ==
    /\ threads[t].pc = "store"
    /\ LET x == threads[t].cell
       IN /\ ctx' = [ctx EXCEPT ![x] = threads[t].val]
          /\ once' = [once EXCEPT ![x] = "complete"]
          /\ threads' = [threads EXCEPT ![t] = [Idle EXCEPT !.ret = threads[t].val]]
          /\ hist' = [hist EXCEPT
                !.stores[x] = @ + 1, !.last = Last("store", x),
                !.returned[x] = @ \cup {Unwrap(threads[t].val)}]
    /\ UNCHANGED world
    /\ UNCHANGED beside_ctx

\* a caller that waited finds the cell filled
Wake(t) ==
    /\ threads[t].pc = "wait"
    /\ LET x == threads[t].cell
       IN /\ once[x] = "complete"
          /\ threads' = [threads EXCEPT ![t] = [Idle EXCEPT !.ret = ctx[x]]]
          /\ hist' = [hist EXCEPT !.last = Last("woken", x),
                                  !.returned[x] = @ \cup {Unwrap(ctx[x])}]
    /\ UNCHANGED <<world, ctx, once>>
    /\ UNCHANGED beside_ctx

\* set_config takes the Context by value: no caller is inside it
SetConfig(config) ==
    /\ AllIdle
    /\ ctx' = set_config(ctx, config)
    /\ ctx' # ctx
    /\ hist' = [hist EXCEPT !.last = Last("set_config", "none")]
    /\ UNCHANGED <<world, once, threads>>
    /\ UNCHANGED beside_ctx

\* outside the process, the directory or the repository changes
WorldChanges ==
    /\ hist.changes < MaxChanges
    /\ \E d \in CtxDirs, r \in CtxRepos :
          /\ world' = [world EXCEPT !.dir = d, !.repo = r]
          /\ world' # world
    /\ hist' = [hist EXCEPT !.changes = @ + 1, !.last = Last("world", "none")]
    /\ UNCHANGED <<ctx, once, threads>>
    /\ UNCHANGED beside_ctx

NextCtx ==
    \/ \E t \in Threads, x \in Cells : Call(t, x)
    \/ \E t \in Threads : RunInitializer(t)
    \/ \E t \in Threads : Store(t)
    \/ \E t \in Threads : Wake(t)
    \/ \E config \in ConfigTables : SetConfig(config)
    \/ WorldChanges

SpecCtx == InitCtx /\ [][NextCtx]_vars

\* C1: for any sequence of get_repo() calls on one Context, discovery runs at
\* most once and every call returns the outcome of the first, the same Repo
\* or the same error; a failed discovery is not retried, even when a
\* repository has become discoverable since
C1_DiscoveryAtMostOnce ==
    /\ hist.inits["repo"] <= 1
    /\ Cardinality(hist.returned["repo"]) <= 1
    /\ hist.returned["repo"] # {} =>
          /\ IsSome(ctx.repo)
          /\ hist.returned["repo"] = {Unwrap(ctx.repo)}

\* a call of get_repo() has just returned the cached failure although a
\* repository is there by now
C1_Witness ==
    /\ hist.last = Last("hit", "repo")
    /\ IsSome(ctx.repo)
    /\ ~IsOk(Unwrap(ctx.repo))
    /\ IsSome(world.repo)
    /\ hist.changes > 0
    /\ \E t \in Threads : threads[t].pc = "idle" /\ threads[t].ret = ctx.repo

\* C2: for any sequence of dir_contents() calls on one Context, the directory
\* is scanned at most once and every call returns the index or the I/O error
\* of the first, whatever happens to the directory later
C2_ScanAtMostOnce ==
    /\ hist.inits["dir_contents"] <= 1
    /\ Cardinality(hist.returned["dir_contents"]) <= 1
    /\ hist.returned["dir_contents"] # {} =>
          /\ IsSome(ctx.dir_contents)
          /\ hist.returned["dir_contents"] = {Unwrap(ctx.dir_contents)}

\* a call of dir_contents() has just returned the cached index although the
\* directory is gone by now
C2_Witness ==
    /\ hist.last = Last("hit", "dir_contents")
    /\ IsSome(ctx.dir_contents)
    /\ IsOk(Unwrap(ctx.dir_contents))
    /\ has_file_name(Unwrap(ctx.dir_contents).v, <<"a", ".", "b">>)
    /\ world.dir = Unreadable("NotFound")
    /\ \E t \in Threads : threads[t].pc = "idle" /\ threads[t].ret = ctx.dir_contents

InsideInitializer(x) ==
    {t \in Threads : threads[t].cell = x /\ threads[t].pc \in {"init", "store"}}

\* C3: when several callers enter dir_contents() (or get_repo()) while the
\* cache is empty, in every interleaving at most one initializer runs and
\* stores its result, every caller gets that stored result, and the stored
\* result is never replaced
C3_OneInitializerOneResult ==
    /\ [] \A x \in Cells :
            /\ Cardinality(InsideInitializer(x)) <= 1
            /\ hist.stores[x] <= 1
            /\ IsSome(ctx[x]) <=> once[x] = "complete"
            /\ \A r \in hist.returned[x] : ctx[x] = Some(r)
    /\ [][\A x \in Cells : IsSome(ctx[x]) => ctx'[x] = ctx[x]]_vars

\* two callers were inside dir_contents() at once: one ran the initializer,
\* the other waited, and both hold the one stored result
C3_Witness ==
    /\ hist.last = Last("woken", "dir_contents")
    /\ AllIdle
    /\ hist.stores["dir_contents"] = 1
    /\ \A t \in Threads : threads[t].ret = ctx.dir_contents
    /\ IsOk(Unwrap(ctx.dir_contents))

\* the fields of Context other than config and root_config
KeptBySetConfig ==
    {"properties", "current_dir", "logical_dir", "dir_contents", "repo", "shell",
     "target", "width", "env", "cmd"}

\* C4: set_config replaces the configuration and the root configuration
\* derived from it and nothing else: current_dir, logical_dir, properties,
\* shell, target, width, env and both caches, empty or filled, stay as they
\* are, so a result cached before set_config is the one returned after it
C4_SetConfigKeepsTheRest ==
    [][hist'.last.act = "set_config" =>
          /\ \A f \in KeptBySetConfig : ctx'[f] = ctx[f]
          /\ once' = once
          /\ IsSome(ctx'.config)
          /\ ctx'.root_config = Load(Unwrap(ctx'.config))]_vars

\* the index was scanned following symlinks, set_config then turned
\* follow_symlinks off, and a call of dir_contents() has just returned that index
C4_Witness ==
    /\ hist.last = Last("hit", "dir_contents")
    /\ ~ctx.root_config.follow_symlinks
    /\ IsOk(Unwrap(ctx.dir_contents))
    /\ has_folder(Unwrap(ctx.dir_contents).v, <<"l">>)
    /\ \E t \in Threads : threads[t].pc = "idle" /\ threads[t].ret = ctx.dir_contents

----------------------------------------------------------------------------
(* Two Contexts on the same filesystem: set_config before the first        *)
(* dir_contents() call, and after it                                       *)

\* the directories scanned
TimingDirs ==
    CtxDirs \cup
    { Readable(<< Entry(<<"l">>, "symlink_dir") >>),
      Readable(<< Entry(<<"d">>, "dir"), Entry(<<"f">>, "symlink_file") >>),
      Readable(<<>>) }

\* the tables given to set_config: some change scan_timeout or follow_symlinks
TimingTables ==
    ConfigTables \cup
    { Table(None, Some(0), None, Some(FALSE)), Table(Some(0), None, Some(FALSE), None),
      Table(Some(SCAN_TIMEOUT_DEFAULT), None, Some(TRUE), None) }

\* one caller at a time: the state of the cell's Once follows from the cell
OnceOf(cell) == IF IsSome(cell) THEN "complete" ELSE "incomplete"

\* a whole call of dir_contents() by the only caller: the Context afterwards
\* and the result returned
CallDirContents(c, w, test) ==
    IF dir_contents(c, OnceOf(c.dir_contents)) = "hit"
    THEN [ctx |-> c, ret |-> c.dir_contents]
    ELSE LET r == scan_current_dir(c, w, test)
         IN [ctx |-> [c EXCEPT !.dir_contents = Some(r)], ret |-> Some(r)]

Run(c) == [pc |-> "start", ctx |-> c, first |-> None, ret |-> None]

InitTiming ==
    /\ cfg_test \in BOOLEAN
    /\ \E d \in TimingDirs : world = [dir |-> d, repo |-> None, clock |-> <<0>>]
    /\ \E config \in TimingTables :
          runs = [config |-> config,
                  before |-> Run(DefaultContext), after |-> Run(DefaultContext)]
    /\ ctx = Off /\ once = Off /\ threads = Off /\ hist = Off
    /\ scandir = Off /\ scan = Off /\ proc = Off /\ anc = Off /\ op = Off

\* the Context that is configured first
BeforeSetConfig ==
    /\ runs.before.pc = "start"
    /\ runs' = [runs EXCEPT !.before.pc = "configured",
                            !.before.ctx = set_config(@, runs.config)]
    /\ UNCHANGED beside_runs

BeforeDirContents ==
    /\ runs.before.pc = "configured"
    /\ LET r == CallDirContents(runs.before.ctx, world, cfg_test)
       IN runs' = [runs EXCEPT !.before.pc = "done", !.before.ctx = r.ctx,
                               !.before.first = r.ret, !.before.ret = r.ret]
    /\ UNCHANGED beside_runs

\* the Context that is scanned first
AfterDirContents ==
    /\ runs.after.pc = "start"
    /\ LET r == CallDirContents(runs.after.ctx, world, cfg_test)
       IN runs' = [runs EXCEPT !.after.pc = "scanned", !.after.ctx = r.ctx,
                               !.after.first = r.ret]
    /\ UNCHANGED beside_runs

AfterSetConfig ==
    /\ runs.after.pc = "scanned"
    /\ runs' = [runs EXCEPT !.after.pc = "configured",
                            !.after.ctx = set_config(@, runs.config)]
    /\ UNCHANGED beside_runs

AfterDirContentsAgain ==
    /\ runs.after.pc = "configured"
    /\ LET r == CallDirContents(runs.after.ctx, world, cfg_test)
       IN runs' = [runs EXCEPT !.after.pc = "done", !.after.ctx = r.ctx,
                               !.after.ret = r.ret]
    /\ UNCHANGED beside_runs

NextTiming ==
    \/ BeforeSetConfig
    \/ BeforeDirContents
    \/ AfterDirContents
    \/ AfterSetConfig
    \/ AfterDirContentsAgain

SpecTiming == InitTiming /\ [][NextTiming]_vars

BothDone == runs.before.pc = "done" /\ runs.after.pc = "done"

\* C5 as stated: on the same filesystem, dir_contents() returns the same
\* index whether set_config was applied before or after the first call
C5_SameIndexEitherOrder ==
    BothDone => runs.before.ret = runs.after.ret

\* the scan the given root configuration leads to
IndexUnder(root_config) ==
    from_path_with_timeout(world.dir, root_config.scan_timeout,
                           root_config.follow_symlinks, world.clock, cfg_test)

\* C5 as amended: the index is the one scanned with the scan_timeout and
\* follow_symlinks in force at the first dir_contents() call, and a later
\* set_config leaves it as it is; the two orders agree when set_config
\* leaves the scan of this directory as it was
C5_IndexOfTheFirstCall ==
    /\ runs.before.pc = "done" =>
          runs.before.ret = Some(IndexUnder(Load(runs.config)))
    /\ runs.after.pc \in {"scanned", "configured", "done"} =>
          runs.after.first = Some(IndexUnder(DefaultRootConfig))
    /\ runs.after.pc = "done" => runs.after.ret = runs.after.first
    /\ BothDone /\ IndexUnder(Load(runs.config)) = IndexUnder(DefaultRootConfig)
          => runs.before.ret = runs.after.ret

\* follow_symlinks was turned off: the Context configured first has the
\* symlink among its files, the one scanned first among its folders
C5_Witness ==
    /\ BothDone
    /\ ~Load(runs.config).follow_symlinks
    /\ IsOk(Unwrap(runs.before.ret)) /\ IsOk(Unwrap(runs.after.ret))
    /\ has_file_name(Unwrap(runs.before.ret).v, <<"l">>)
    /\ has_folder(Unwrap(runs.after.ret).v, <<"l">>)
    /\ runs.after.ret = runs.after.first

----------------------------------------------------------------------------
(* ScanAncestors::scan with two marker names, on one device *)

Marker2 == <<"n">>

\* A file system along the chain, all on one device: levels[k + 1] says what
\* the names Marker and Marker2 are inside the directory at depth k
Tree(levels) ==
    {<<ChainPath(k), "dir", 1>> : k \in 0..(Len(levels) - 1)}
    \cup
    {<<Append(ChainPath(k), Marker), levels[k + 1].m, 1>> :
        k \in {j \in 0..(Len(levels) - 1) : levels[j + 1].m # "absent"}}
    \cup
    {<<Append(ChainPath(k), Marker2), levels[k + 1].n, 1>> :
        k \in {j \in 0..(Len(levels) - 1) : levels[j + 1].n # "absent"}}

TreeSets(depth) ==
    [1..(depth + 1) -> [m : {"absent", "file", "dir"}, n : {"absent", "file", "dir"}]]

\* the lists given to set_files and set_folders
NameLists == {<<>>, <<Marker>>, <<Marker, Marker2>>, <<Marker2, Marker>>}

InitWalk ==
    /\ cfg_test = FALSE
    /\ \E levels \in TreeSets(MaxDepth), files \in NameLists, folders \in NameLists :
          anc = [pc |-> "start",
                 nodes |-> Tree(levels),
                 platform |-> "linux",
                 path |-> ChainPath(MaxDepth),
                 files |-> files,
                 folders |-> folders,
                 initial_device_id |-> None,
                 buf |-> <<>>,
                 k |-> 0,
                 probes |-> <<>>,
                 examined |-> <<>>,
                 ret |-> None]
    /\ world = Off /\ ctx = Off /\ once = Off /\ threads = Off /\ hist = Off /\ runs = Off
    /\ scandir = Off /\ scan = Off /\ proc = Off /\ op = Off

SpecWalk == InitWalk /\ [][NextAnc]_vars

\* the levels, from the starting path up to the root
LevelsUp(path) == [i \in 1..Len(path) |-> SubSeq(path, 1, Len(path) + 1 - i)]

\* the directory directly contains a listed file name as a regular file, or a
\* listed folder name as a directory
HoldsMarker(d) ==
    \/ \E i \in 1..Len(anc.files) :
          <<Append(d, anc.files[i]), "file", 1>> \in anc.nodes
    \/ \E j \in 1..Len(anc.folders) :
          <<Append(d, anc.folders[j]), "dir", 1>> \in anc.nodes

\* the probes of one level in the order stated: the file names in list order,
\* then the folder names in list order
ProbesAt(d) ==
    [i \in 1..(Len(anc.files) + Len(anc.folders)) |->
        IF i <= Len(anc.files)
        THEN [at |-> d, probe |-> Append(d, anc.files[i]), as |-> "file"]
        ELSE [at |-> d, probe |-> Append(d, anc.folders[i - Len(anc.files)]), as |-> "dir"]]

RECURSIVE ProbesFrom(_, _)
ProbesFrom(levels, i) ==
    IF i > Len(levels) THEN <<>> ELSE ProbesAt(levels[i]) \o ProbesFrom(levels, i + 1)

ProbeHits(p) == <<p.probe, p.as, 1>> \in anc.nodes

\* C11: the walk goes from the starting path upward one parent at a time and
\* returns the closest directory that directly holds a listed file name as a
\* regular file or a listed folder name as a directory; at a level the file
\* names are probed in list order before any folder name, and the first hit
\* ends the walk
C11_ClosestLevelInListOrder ==
    LET levels == LevelsUp(anc.path)
        order == ProbesFrom(levels, 1)
        n == Len(anc.probes)
    IN /\ n <= Len(order)
       /\ anc.probes = SubSeq(order, 1, n)
       /\ \A i \in 1..(n - 1) : ~ProbeHits(order[i])
       /\ anc.pc = "done" =>
             IF \E i \in 1..Len(levels) : HoldsMarker(levels[i])
             THEN LET first == SetMin({i \in 1..Len(levels) : HoldsMarker(levels[i])})
                  IN /\ anc.ret = Some(levels[first])
                     /\ ProbeHits(order[n])
                     /\ order[n].at = levels[first]
             ELSE anc.ret = None /\ n = Len(order)

\* the start holds nothing, its parent holds Marker2 as a file and Marker as a
\* folder, and above it lies another hit: the parent is returned, after
\* Marker was probed as a file there and before any folder was
C11_Witness ==
    /\ anc.pc = "done"
    /\ anc.files = <<Marker, Marker2>>
    /\ anc.folders = <<Marker, Marker2>>
    /\ ~HoldsMarker(anc.path)
    /\ HoldsMarker(Pop(Pop(anc.path)))
    /\ <<Append(Pop(anc.path), Marker), "dir", 1>> \in anc.nodes
    /\ <<Append(Pop(anc.path), Marker2), "file", 1>> \in anc.nodes
    /\ anc.ret = Some(Pop(anc.path))
    /\ anc.probes[Len(anc.probes)].as = "file"

----------------------------------------------------------------------------
(* The index of a directory tree, and the four queries on it *)

\* the length of the name of the entry that is drawn from all names
MaxName == 5

\* a node of the tree under the scan root: its path from the root, as
\* components, and its kind
Node(path, kind) == [path |-> path, kind |-> kind]

\* every name over a letter and the dot, but "." and ".."
IndexNames ==
    SeqsUpTo({"a", "."}, MaxName) \ {<<>>, <<".">>, <<".", ".">>}

Dir_d == <<"d">>
Dir_e == <<"e">>
File_ms == <<"m", ".", "s">>
File_pj == <<"p", ".", "j">>
Hidden_ex == <<".", "e", ".", "x">>

\* what lies in the tree beside the drawn entry: nothing, a hidden file, a
\* file one level down, a file two levels down, the same beside a top-level
\* file
Companions ==
    { {},
      {Node(<<Hidden_ex>>, "file")},
      {Node(<<Dir_d>>, "dir"), Node(<<Dir_d, File_ms>>, "file")},
      {Node(<<Dir_d>>, "dir"), Node(<<Dir_d, Dir_e>>, "dir"),
       Node(<<Dir_d, Dir_e, File_ms>>, "file")},
      {Node(<<File_pj>>, "file"), Node(<<Dir_d>>, "dir"), Node(<<Dir_d, Dir_e>>, "dir"),
       Node(<<Dir_d, Dir_e, File_ms>>, "file")} }

Trees ==
    {{Node(<<name>>, kind)} \cup rest :
        name \in IndexNames, kind \in EntryKinds, rest \in Companions}

\* the sequences that hold every element of S once
Orders(S) ==
    {q \in SeqsUpTo(S, Cardinality(S)) :
        Len(q) = Cardinality(S) /\ \A i, j \in 1..Len(q) : i # j => q[i] # q[j]}

\* a mutation: the directories below the root are read as well
read_dir_recursive(tree, order) ==
    LET below == {n \in tree : Len(n.path) > 1}
        more == CHOOSE q \in Orders(below) : TRUE
    IN Readable([i \in 1..(Len(order) + Len(more)) |->
                    IF i <= Len(order) THEN Entry(order[i].path[1], order[i].kind)
                    ELSE LET n == more[i - Len(order)]
                         IN Entry(n.path[Len(n.path)], n.kind)])

\* fs::read_dir(base): the children of base, in the order the system gives
read_dir(tree, order) ==
    Readable([i \in 1..Len(order) |-> Entry(order[i].path[1], order[i].kind)])

Children(tree) == {n \in tree : Len(n.path) = 1}

Slash == <<"/">>

\* a path as the string that names it
RECURSIVE PathString(_)
PathString(path) ==
    IF Len(path) = 1 THEN path[1] ELSE path[1] \o Slash \o PathString(Tail(path))

\* the strings asked about: every path of the tree, every bare name in it,
\* and the top-level names written with "./" before and "/" after
Queries(tree) ==
    {PathString(n.path) : n \in tree}
    \cup {n.path[Len(n.path)] : n \in tree}
    \cup {<<".">> \o Slash \o n.path[1] : n \in Children(tree)}
    \cup {n.path[1] \o Slash : n \in Children(tree)}
    \cup {<<"a">>, <<"s">>, <<"a", ".", "a">>}

InitIndex ==
    /\ cfg_test \in BOOLEAN
    /\ \E tree \in Trees, f \in BOOLEAN :
          scan = [pc |-> "list", tree |-> tree, dir |-> Unreadable("unset"),
                  timeout |-> SCAN_TIMEOUT_DEFAULT, follow_symlinks |-> f,
                  clock |-> <<0>>, ret |-> Err("unset"),
                  asked |-> None, answers |-> None]
    /\ world = Off /\ ctx = Off /\ once = Off /\ threads = Off /\ hist = Off /\ runs = Off
    /\ scandir = Off /\ proc = Off /\ anc = Off /\ op = Off

\* fs::read_dir(base)
ReadDir ==
    /\ scan.pc = "list"
    /\ \E order \in Orders(Children(scan.tree)) :
          scan' = [scan EXCEPT !.pc = "call", !.dir = read_dir(scan.tree, order)]
    /\ UNCHANGED beside_scan

\* has_file, has_file_name, has_folder and has_extension of one string
Ask ==
    /\ scan.pc = "done"
    /\ IsOk(scan.ret)
    /\ \E q \in Queries(scan.tree) :
          scan' = [scan EXCEPT
                !.pc = "asked", !.asked = Some(q),
                !.answers = Some([has_file |-> has_file(scan.ret.v, q),
                                  has_file_name |-> has_file_name(scan.ret.v, q),
                                  has_folder |-> has_folder(scan.ret.v, q),
                                  has_extension |-> has_extension(scan.ret.v, q)])]
    /\ UNCHANGED beside_scan

NextIndex ==
    \/ ReadDir
    \/ FromPathCall
    \/ Ask

SpecIndex == InitIndex /\ [][NextIndex]_vars

Indexed == scan.pc \in {"done", "asked"} /\ IsOk(scan.ret)

\* the children that are files whatever follow_symlinks says
PlainFiles(tree) == {n \in Children(tree) : n.kind \in {"file", "symlink_file"}}

\* what follows the dot at position p of the name
AfterDot(name, p) == SubSeq(name, p + 1, Len(name))

IsFirstOrLast(p, dots) == (\A r \in dots : r <= p) \/ (\A r \in dots : r >= p)

\* C12: for every file entry that is not hidden and has a dot in its name the
\* index holds as extensions what follows the last dot and what follows the
\* first dot; an entry whose name starts with a dot gives no extension and is
\* still among the files and the file names
C12_BothExtensions ==
    Indexed =>
       /\ \A n \in PlainFiles(scan.tree) :
             LET name == n.path[1]
                 dots == Positions(name, ".")
             IN /\ name[1] # "." =>
                      \A p \in dots : IsFirstOrLast(p, dots)
                                         => AfterDot(name, p) \in scan.ret.v.extensions
                /\ name[1] = "." =>
                      /\ <<name>> \in scan.ret.v.files
                      /\ name \in scan.ret.v.file_names
       /\ \A e \in scan.ret.v.extensions :
             \E n \in Children(scan.tree) :
                /\ <<n.path[1]>> \in scan.ret.v.files
                /\ n.path[1][1] # "."
                /\ \E p \in Positions(n.path[1], ".") : e = AfterDot(n.path[1], p)

\* a file with two dots in its name beside a hidden file with a dot after the
\* leading one: both extensions of the first, none of the second
C12_Witness ==
    /\ Indexed
    /\ Node(<< <<"a", ".", "a", ".", "a">> >>, "file") \in scan.tree
    /\ Node(<<Hidden_ex>>, "file") \in scan.tree
    /\ scan.ret.v.extensions = {<<"a">>, <<"a", ".", "a">>}
    /\ has_file(scan.ret.v, Hidden_ex)
    /\ has_file_name(scan.ret.v, Hidden_ex)

Below(tree) == {n \in tree : Len(n.path) > 1}

\* C13: the index is built from the immediate children of the scan root only:
\* a file inside a subfolder adds nothing to the files, the file names or the
\* extensions, and of its folders only the top-level one is recorded
C13_ImmediateChildrenOnly ==
    Indexed =>
       LET dc == scan.ret.v
           top == Children(scan.tree)
       IN /\ dc.files \cup dc.folders \subseteq {n.path : n \in top}
          /\ dc.file_names \subseteq {n.path[1] : n \in top}
          /\ \A e \in dc.extensions :
                \E n \in top : \E p \in Positions(n.path[1], ".") :
                   e = AfterDot(n.path[1], p)
          /\ \A n \in Below(scan.tree) :
                /\ n.path \notin dc.files \cup dc.folders
                /\ <<n.path[1]>> \in dc.folders
                /\ \A k \in 2..Len(n.path) : SubSeq(n.path, 1, k) \notin dc.folders

\* a top-level file beside a folder with a file two levels down: the file and
\* the folder are indexed, nothing of what lies below is
C13_Witness ==
    /\ Indexed
    /\ Node(<<Dir_d, Dir_e, File_ms>>, "file") \in scan.tree
    /\ has_file(scan.ret.v, File_pj)
    /\ has_folder(scan.ret.v, Dir_d)
    /\ has_extension(scan.ret.v, <<"j">>)
    /\ ~has_extension(scan.ret.v, <<"s">>)
    /\ ~has_file_name(scan.ret.v, File_ms)
    /\ scan.ret.v.folders = {<<Dir_d>>}

\* the nodes that are files, at any depth
FilesOf(tree) == {n \in tree : n.kind \in {"file", "symlink_file"}}

\* C14 as stated: has_file_name(name) holds for a file of that bare name at
\* any depth below the scan root, has_file and has_folder only for the exact
\* path from the scan root
C14_FileNameAtAnyDepth ==
    scan.pc = "asked" =>
       LET q == Unwrap(scan.asked)
           a == Unwrap(scan.answers)
       IN /\ (\E n \in FilesOf(scan.tree) : n.path[Len(n.path)] = q) => a.has_file_name
          /\ a.has_file => \E n \in scan.tree : PathNew(q) = n.path
          /\ a.has_folder => \E n \in scan.tree : PathNew(q) = n.path

\* the child is indexed as a folder
IndexedAsFolder(n) ==
    n.kind = "dir" \/ (n.kind = "symlink_dir" /\ scan.follow_symlinks)

\* C14 as amended: has_file_name(name) holds exactly when an immediate child
\* of the scan root that is indexed as a file has that name, has_file(path)
\* and has_folder(path) exactly when the components of path are those of an
\* immediate child indexed as a file, or as a folder
C14_FileNameOfImmediateChild ==
    scan.pc = "asked" =>
       LET q == Unwrap(scan.asked)
           a == Unwrap(scan.answers)
           top == Children(scan.tree)
       IN /\ a.has_file_name <=>
                \E n \in top : ~IndexedAsFolder(n) /\ n.path[1] = q
          /\ a.has_file <=>
                \E n \in top : ~IndexedAsFolder(n) /\ n.path = PathNew(q)
          /\ a.has_folder <=>
                \E n \in top : IndexedAsFolder(n) /\ n.path = PathNew(q)

\* asked about the name of a file that lies two levels down, and about no
\* name at the top: neither as a file name nor as a path is it found
C14_Witness ==
    /\ scan.pc = "asked"
    /\ Unwrap(scan.asked) = File_ms
    /\ Node(<<Dir_d, Dir_e, File_ms>>, "file") \in scan.tree
    /\ ~Unwrap(scan.answers).has_file_name
    /\ ~Unwrap(scan.answers).has_file

\* C15: a symlink to a directory is indexed as a folder iff follow_symlinks
\* is true and as a file otherwise; a symlink to a file is indexed as a file
\* under both settings, and so are real directories as folders and real
\* files as files
C15_SymlinkClassification ==
    Indexed =>
       \A n \in Children(scan.tree) :
          LET folder == n.path \in scan.ret.v.folders
              file == n.path \in scan.ret.v.files
                      /\ n.path[1] \in scan.ret.v.file_names
          IN /\ n.kind = "symlink_dir" =>
                   /\ folder <=> scan.follow_symlinks
                   /\ file <=> ~scan.follow_symlinks
             /\ n.kind \in {"symlink_file", "file"} => file /\ ~folder
             /\ n.kind = "dir" => folder /\ ~file

\* symlinks are not followed and the link to a directory is among the files,
\* with the extension its name has
C15_Witness ==
    /\ Indexed
    /\ ~scan.follow_symlinks
    /\ Node(<< <<"a", ".", "a">> >>, "symlink_dir") \in scan.tree
    /\ Node(<<Dir_d>>, "dir") \in scan.tree
    /\ has_file(scan.ret.v, <<"a", ".", "a">>)
    /\ ~has_folder(scan.ret.v, <<"a", ".", "a">>)
    /\ has_folder(scan.ret.v, Dir_d)
    /\ has_extension(scan.ret.v, <<"a">>)

----------------------------------------------------------------------------
(* Context::new_with_shell_and_path: current_dir and logical_dir *)

\* the paths given as `path`: through the symlink /a/s, with "." and "..",
\* relative, under the home directory, existing and not
NewPaths ==
    PathStrings \cup
    { <<"/", "a", "/", "s">>, <<"/", "a", "/", "s", "/", "y", "/", ".", ".">>,
      <<"/", "a", "/", "r", "/", "y">>, <<"~", "/", "n">>, <<"/", "a", "/", "s", "/", "n">>,
      <<"n">>, <<".", ".", "/", "a", "/", "s", "/", "y">>, <<"/", "a", "/", ".", "/", "r">> }

\* the paths given as `logical_path` when it is not `path` itself
LogicalPaths == { <<"/", "l">>, <<"~", "/", "x">> }

CallNewWith ==
    /\ op.pc = "idle"
    /\ \E p \in NewPaths, l \in LogicalPaths \cup {<<>>}, props \in PropertySets,
          h \in Homes, t \in BOOLEAN :
          LET logical == IF l = <<>> THEN PathNew(p) ELSE PathNew(l)
              w == [config_file |-> None, home |-> h, fs |-> FileSystem, tempdir_ok |-> t]
          IN op' = Finish("new_with_shell_and_path",
                          [path |-> PathNew(p), logical_path |-> logical, home |-> h,
                           fs |-> FileSystem],
                          new_with_shell_and_path(props, "Unknown", "Main", PathNew(p),
                                                  logical, {}, w, cfg_test))
    /\ UNCHANGED beside_op

NextNew == CallNewWith

SpecNew == InitOps /\ [][NextNew]_vars

Constructed == op.pc = "done" /\ op.outcome = "returned"

\* the path with the leading ~ replaced by the home directory, if there is one
Expanded(path, home) ==
    IF path # <<>> /\ path[1] = <<"~">> /\ IsSome(home)
    THEN Unwrap(home) \o Tail(path) ELSE path

\* a real directory: every prefix of the path is a directory of the file
\* system, none a symlink, and no component is "." or ".."
IsCanonical(fs, path) ==
    /\ path \in fs.dirs
    /\ \A k \in 1..Len(path) :
          /\ SubSeq(path, 1, k) \in fs.dirs
          /\ ~\E l \in fs.links : l[1] = SubSeq(path, 1, k)
          /\ path[k] \notin {<<".">>, <<".", ".">>}

\* a prefix of the path is a symlink
ThroughSymlink(fs, path) ==
    \E k \in 1..Len(path) : \E l \in fs.links : l[1] = SubSeq(path, 1, k)

\* C16: when the tilde-expanded path can be canonicalized, current_dir is its
\* canonical, symlink-resolved form and logical_dir is the logical path as
\* given; for a path through a symlink given as both, the two differ
C16_CanonicalCurrentDir ==
    Constructed =>
       LET expanded == Expanded(op.input.path, op.input.home)
           canonical == canonicalize(op.input.fs, expanded)
       IN IsSome(canonical) =>
             /\ op.ret.current_dir = Unwrap(canonical)
             /\ IsCanonical(op.input.fs, op.ret.current_dir)
             /\ op.ret.logical_dir = op.input.logical_path
             /\ (ThroughSymlink(op.input.fs, expanded)
                 /\ op.input.logical_path = op.input.path)
                   => op.ret.current_dir # op.ret.logical_dir

\* /a/s/y given twice, /a/s being a symlink to /a/r: current_dir is /a/r/y
C16_Witness ==
    /\ Constructed
    /\ op.input.path = PathNew(<<"/", "a", "/", "s", "/", "y">>)
    /\ op.input.logical_path = op.input.path
    /\ op.ret.current_dir = PathNew(<<"/", "a", "/", "r", "/", "y">>)
    /\ op.ret.logical_dir = op.input.path

\* the constructor returned and the tilde-expanded path could not be
\* canonicalized
FellBack ==
    /\ Constructed
    /\ ~IsSome(canonicalize(op.input.fs, Expanded(op.input.path, op.input.home)))

HasTilde(path) == path # <<>> /\ path[1] = <<"~">>

\* C17 as stated: when canonicalization fails current_dir is the
\* tilde-expanded, otherwise unmodified path, and it equals logical_dir when
\* both are made from the same input
C17_FallbackEqualsLogical ==
    FellBack =>
       /\ op.ret.current_dir = Expanded(op.input.path, op.input.home)
       /\ op.input.logical_path = op.input.path
             => op.ret.current_dir = op.ret.logical_dir

\* C17 as amended: when canonicalization fails current_dir is the
\* tilde-expanded, otherwise unmodified path and logical_dir the logical path
\* as given; made from the same input the two are equal when the input does
\* not start with ~, and differ when it does, current_dir being the path
\* under the home directory
C17_FallbackIsExpandedPath ==
    FellBack =>
       /\ op.ret.current_dir = Expanded(op.input.path, op.input.home)
       /\ op.ret.logical_dir = op.input.logical_path
       /\ op.input.logical_path = op.input.path =>
             IF HasTilde(op.input.path)
             THEN /\ IsSome(op.input.home)
                  /\ op.ret.current_dir = Unwrap(op.input.home) \o Tail(op.input.path)
                  /\ op.ret.current_dir # op.ret.logical_dir
             ELSE op.ret.current_dir = op.ret.logical_dir

\* ~/n given twice, with no n in the home directory /h: current_dir is /h/n,
\* logical_dir is ~/n
C17_Witness ==
    /\ FellBack
    /\ op.input.path = PathNew(<<"~", "/", "n">>)
    /\ op.input.logical_path = op.input.path
    /\ op.ret.current_dir = PathNew(<<"/", "h", "/", "n">>)
    /\ op.ret.logical_dir = PathNew(<<"~", "/", "n">>)

----------------------------------------------------------------------------
(* wrap_seq_for_shell *)

\* the length of the text given to wrap_seq_for_shell
MaxText == 4

Shells ==
    {"Bash", "Fish", "Ion", "Pwsh", "PowerShell", "Zsh", "Elvish", "Tcsh", "Nu",
     "Xonsh", "Cmd", "Unknown"}

\* a mutation: Fish gets the markers of Zsh
Markers_fish_too(shell) ==
    IF shell = "Bash" THEN Some([beg |-> <<"\\", "[">>, end |-> <<"\\", "]">>])
    ELSE IF shell \in {"Tcsh", "Zsh", "Fish"}
         THEN Some([beg |-> <<"%", "{">>, end |-> <<"%", "}">>])
    ELSE None

\* the match on the shell: \[ and \] for Bash, %{ and %} for Tcsh and Zsh,
\* nothing for the others
Markers(shell) ==
    IF shell = "Bash" THEN Some([beg |-> <<"\\", "[">>, end |-> <<"\\", "]">>])
    ELSE IF shell \in {"Tcsh", "Zsh"}
         THEN Some([beg |-> <<"%", "{">>, end |-> <<"%", "}">>])
    ELSE None

RECURSIVE MapChars(_, _, _, _, _, _)
\* the closure mapped over ansi.chars(), from position i with the flag `escaped`
MapChars(ansi, i, escaped, mk, escape_begin, escape_end) ==
    IF i > Len(ansi) THEN <<>>
    ELSE LET x == ansi[i]
         IN IF x = escape_begin /\ ~escaped
            THEN mk.beg \o <<escape_begin>>
                 \o MapChars(ansi, i + 1, TRUE, mk, escape_begin, escape_end)
            ELSE IF x = escape_end /\ escaped
            THEN <<escape_end>> \o mk.end
                 \o MapChars(ansi, i + 1, FALSE, mk, escape_begin, escape_end)
            ELSE <<x>> \o MapChars(ansi, i + 1, escaped, mk, escape_begin, escape_end)

\* a mutation: the end delimiter is replaced by the closing marker
wrap_seq_for_shell_drops_end(ansi, shell, escape_begin, escape_end) ==
    IF ~IsSome(Markers(shell)) THEN ansi
    ELSE LET mk == Unwrap(Markers(shell))
         IN MapChars(ansi, 1, FALSE, [beg |-> mk.beg, end |-> <<>>],
                     escape_begin, escape_end)

wrap_seq_for_shell(ansi, shell, escape_begin, escape_end) ==
    IF ~IsSome(Markers(shell)) THEN ansi
    ELSE MapChars(ansi, 1, FALSE, Unwrap(Markers(shell)), escape_begin, escape_end)

\* the characters of the texts: the escape character, written "E", the letter
\* that ends a colour sequence, and the characters of the markers of the shell
TextChars(shell) ==
    {"E", "m"} \cup
    (IF shell = "Bash" THEN {"\\", "[", "]"} ELSE {"%", "{", "}"})

\* the delimiter pairs: those of a colour sequence, one character for both,
\* and a begin delimiter that is the first character of the markers
Delimiters(shell) ==
    { <<"E", "m">>, <<"m", "m">>, <<(IF shell = "Bash" THEN "\\" ELSE "%"), "m">> }

CallWrap ==
    /\ op.pc = "idle"
    /\ \E shell \in Shells :
       \E ansi \in SeqsUpTo(TextChars(shell), MaxText), d \in Delimiters(shell) :
          op' = Finish("wrap_seq_for_shell",
                       [ansi |-> ansi, shell |-> shell,
                        escape_begin |-> d[1], escape_end |-> d[2]],
                       Returned(wrap_seq_for_shell(ansi, shell, d[1], d[2])))
    /\ UNCHANGED beside_op

NextWrap == CallWrap

SpecWrap == InitOps /\ [][NextWrap]_vars

Wrapped == op.pc = "done" /\ op.name = "wrap_seq_for_shell"

RECURSIVE StripMarkers(_, _)
\* the text without the occurrences of the two markers, found left to right
StripMarkers(s, mk) ==
    IF s = <<>> THEN <<>>
    ELSE IF Len(s) >= 2 /\ SubSeq(s, 1, 2) \in {mk.beg, mk.end}
         THEN StripMarkers(SubSeq(s, 3, Len(s)), mk)
    ELSE <<Head(s)>> \o StripMarkers(Tail(s), mk)

\* the text holds one escape sequence, from position i to position j: a begin
\* delimiter, later an end delimiter, and neither of them anywhere else
SequenceAt(ansi, b, e, i, j) ==
    /\ i < j
    /\ ansi[i] = b /\ ansi[j] = e
    /\ \A k \in (1..Len(ansi)) \ {i, j} : ansi[k] \notin {b, e}

OneSequence(ansi, b, e) ==
    \E i, j \in 1..Len(ansi) : SequenceAt(ansi, b, e, i, j)

ContainsMarker(ansi, mk) ==
    \E k \in 1..(Len(ansi) - 1) : SubSeq(ansi, k, k + 1) \in {mk.beg, mk.end}

\* C18 as stated: for Zsh, Bash and Tcsh and a text with one well-formed
\* escape sequence, wrapping and then removing the markers of the shell gives
\* the text back
C18_StripRestoresText ==
    (/\ Wrapped
     /\ op.input.shell \in {"Zsh", "Bash", "Tcsh"}
     /\ OneSequence(op.input.ansi, op.input.escape_begin, op.input.escape_end))
       => StripMarkers(op.ret, Unwrap(Markers(op.input.shell))) = op.input.ansi

\* C18 as amended: the wrapped text is the text with the opening marker put
\* before the begin delimiter and the closing marker after the end delimiter,
\* every character of the text kept in place; removing the markers gives the
\* text back when the text holds no marker of its own
C18_WrapOnlyInserts ==
    (/\ Wrapped
     /\ op.input.shell \in {"Zsh", "Bash", "Tcsh"})
       => LET ansi == op.input.ansi
              mk == Unwrap(Markers(op.input.shell))
          IN \A i, j \in 1..Len(ansi) :
                SequenceAt(ansi, op.input.escape_begin, op.input.escape_end, i, j) =>
                   /\ op.ret = SubSeq(ansi, 1, i - 1) \o mk.beg \o SubSeq(ansi, i, j)
                                  \o mk.end \o SubSeq(ansi, j + 1, Len(ansi))
                   /\ ~ContainsMarker(ansi, mk) => StripMarkers(op.ret, mk) = ansi

\* {Em% wrapped for Zsh is {%{Em%}%, and without the markers {Em% again
C18_Witness ==
    /\ Wrapped
    /\ op.input.shell = "Zsh"
    /\ op.input.ansi = <<"{", "E", "m", "%">>
    /\ op.input.escape_begin = "E" /\ op.input.escape_end = "m"
    /\ op.ret = <<"{", "%", "{", "E", "m", "%", "}", "%">>
    /\ StripMarkers(op.ret, Unwrap(Markers("Zsh"))) = op.input.ansi

\* C19: for every shell other than Bash, Zsh and Tcsh, every text and every
\* delimiter pair, wrap_seq_for_shell returns the text as it is
C19_OtherShellsUnchanged ==
    (Wrapped /\ op.input.shell \notin {"Bash", "Zsh", "Tcsh"})
       => op.ret = op.input.ansi

\* a text with an escape sequence, for Fish
C19_Witness ==
    /\ Wrapped
    /\ op.input.shell = "Fish"
    /\ op.input.ansi = <<"E", "%", "m">>
    /\ op.input.escape_begin = "E" /\ op.input.escape_end = "m"
    /\ op.ret = <<"E", "%", "m">>

----------------------------------------------------------------------------
(* utils::exec_cmd and the mock table *)

\* the number of arguments given to exec_cmd
MaxArgs == 3

\* a mutation: the process is run first, the table is the fallback
utils_exec_cmd_runs_first(cmd, args, b, test) ==
    IF IsSome(exec_real(b)) \/ ~test \/ ~IsSome(mock_cmd(cmd, args))
    THEN [out |-> exec_real(b), ran |-> TRUE]
    ELSE [out |-> Unwrap(mock_cmd(cmd, args)), ran |-> TRUE]

\* utils::exec_cmd: what it returns, and whether internal_exec_cmd was called
utils_exec_cmd(cmd, args, b, test) ==
    IF test /\ IsSome(mock_cmd(cmd, args))
    THEN [out |-> Unwrap(mock_cmd(cmd, args)), ran |-> FALSE]
    ELSE [out |-> exec_real(b), ran |-> TRUE]

\* the binaries and the arguments
Binaries == {W_v, W_python, W_x, W_java, W_slashjava, W_erl, W_dummy_command, W_v_version}
Arguments == {W_version, W_dashversion, W_Xinternalversion, W_noshell, W_eval, W_x}

CallUtilsExecCmd ==
    /\ op.pc = "idle"
    /\ \E cmd \in Binaries, args \in SeqsUpTo(Arguments, MaxArgs), b \in Behaviours :
          op' = Finish("exec_cmd", [cmd |-> cmd, args |-> args, b |-> b],
                       Returned(utils_exec_cmd(cmd, args, b, cfg_test)))
    /\ UNCHANGED beside_op

NextMock == CallUtilsExecCmd

SpecMock == InitOps /\ [][NextMock]_vars

Executed == op.pc = "done" /\ op.name = "exec_cmd"

\* binary and arguments joined by single spaces
CommandLine(cmd, args) ==
    [i \in 1..Len(args) |-> Space \o args[i]]

RECURSIVE Flatten(_)
Flatten(parts) == IF parts = <<>> THEN <<>> ELSE Head(parts) \o Flatten(Tail(parts))

JoinedLine == op.input.cmd \o Flatten(CommandLine(op.input.cmd, op.input.args))

\* the keys of the entries of the table
Key_java == W_java \o Space \o W_Xinternalversion
Key_erl == W_erl \o Space \o W_noshell \o Space \o W_eval
Key_python == W_python \o Space \o W_dashversion
MockKeys == {W_dummy_command, Key_java, Key_python, W_v_version, Key_erl}

\* C20 as stated: in a test build the table is consulted before any process
\* is created and an entry is selected only when the joined command line
\* equals its key; on a hit nothing is run and the canned result is returned,
\* on a miss the real execution runs
C20_ExactKeySelects ==
    (Executed /\ cfg_test) =>
       IF JoinedLine \in MockKeys
       THEN ~op.ret.ran /\ op.ret.out = Unwrap(mock_cmd(JoinedLine, <<>>))
       ELSE op.ret.ran /\ op.ret.out = exec_real(op.input.b)

\* the entry the line selects: by equality with the key, but for the java
\* entry by its end and for the erl entry by its beginning
Selects(line) ==
    \/ line \in {W_dummy_command, Key_python, W_v_version}
    \/ ends_with(line, Key_java)
    \/ starts_with(line, Key_erl)

\* C20 as amended: in a test build the table is consulted before any process
\* is created; an entry is selected when the joined command line equals its
\* key, and also when the line ends with "java -Xinternalversion" or starts
\* with "erl -noshell -eval"; on a hit nothing is run and the canned result
\* (an output, or nothing) is returned, on a miss the real execution runs, as
\* it always does outside test builds
C20_TableBeforeProcess ==
    Executed =>
       IF cfg_test /\ Selects(JoinedLine)
       THEN /\ ~op.ret.ran
            /\ IsSome(mock_cmd(JoinedLine, <<>>))
            /\ op.ret.out = Unwrap(mock_cmd(JoinedLine, <<>>))
       ELSE op.ret.ran /\ op.ret.out = exec_real(op.input.b)

\* /java -Xinternalversion in a test build: the banner of the java entry comes
\* back though the binary would have been found and run
C20_Witness ==
    /\ Executed
    /\ cfg_test
    /\ op.input.cmd = W_slashjava
    /\ op.input.args = <<W_Xinternalversion>>
    /\ op.input.b.found /\ op.input.b.spawned
    /\ ~op.ret.ran
    /\ op.ret.out = Some(CommandOutput(JavaBanner, <<>>))

----------------------------------------------------------------------------
(* Repo::exec_git *)

\* the number of arguments the caller of exec_git gives
MaxGitArgs == 2

W_git == <<"g", "i", "t">>
Flag_C == <<"-", "C">>
Flag_git_dir == <<"-", "-", "g", "i", "t", "-", "d", "i", "r">>
Flag_c == <<"-", "c">>
Flag_work_tree == <<"-", "-", "w", "o", "r", "k", "-", "t", "r", "e", "e">>
FsMonitorKey ==
    <<"c", "o", "r", "e", ".", "f", "s", "m", "o", "n", "i", "t", "o", "r", "=">>
W_true == <<"t", "r", "u", "e">>
W_status == <<"s", "t", "a", "t", "u", "s">>
W_0 == <<"0">>
GIT_OPTIONAL_LOCKS ==
    <<"G", "I", "T", "_", "O", "P", "T", "I", "O", "N", "A", "L", "_",
      "L", "O", "C", "K", "S">>

\* Path::as_os_str: the components joined by the separator, after the root
as_os_str(path) ==
    IF path = <<>> THEN <<>>
    ELSE IF path[1] = Slash
         THEN Slash \o (IF Len(path) = 1 THEN <<>> ELSE PathString(Tail(path)))
    ELSE PathString(path)

\* the directory of PATH where which::which finds a binary
BinDir == PathNew(<<"/", "b">>)

\* create_command(binary_name), given whether which::which finds the binary:
\* a Command for its full path, with no argument and no variable yet
create_command(binary_name, found) ==
    IF found
    THEN Ok([program |-> Join(BinDir, <<binary_name>>), args |-> <<>>, envs |-> {}])
    ELSE Err("NotFound")

\* Command::env: the variable is set, replacing an earlier value
CommandEnv(command, key, val) ==
    [command EXCEPT !.envs = {kv \in @ : kv[1] # key} \cup {<<key, val>>}]

\* Command::args: the arguments are appended
CommandArgs(command, more) == [command EXCEPT !.args = @ \o more]

\* a mutation: a bare repository gets its git directory as work tree
exec_git_work_tree_always(repo, c, git_args, b) ==
    LET created == create_command(W_git, b.found)
    IN IF ~IsOk(created) THEN [command |-> None, out |-> None]
       ELSE LET fsm_config_value == IF repo.fs_monitor_value_is_true
                                    THEN FsMonitorKey \o W_true ELSE FsMonitorKey
                c1 == CommandArgs(CommandEnv(created.v, GIT_OPTIONAL_LOCKS, W_0),
                                  << Flag_C, as_os_str(c.current_dir),
                                     Flag_git_dir, as_os_str(repo.path),
                                     Flag_c, fsm_config_value >>)
                c2 == CommandArgs(c1, << Flag_work_tree,
                                         as_os_str(OrDefault(repo.workdir, repo.path)) >>)
                c3 == CommandArgs(c2, git_args)
            IN [command |-> Some(c3),
                out |-> IF ~b.spawned THEN None ELSE exec_timeout_match(b.waited)]

\* Repo::exec_git; `b` is what happens outside: whether git is found, whether
\* it is spawned and what wait() gives.  The result holds the Command handed
\* to exec_timeout, if one was built, and the value returned
exec_git(repo, c, git_args, b) ==
    LET created == create_command(W_git, b.found)
    IN IF ~IsOk(created) THEN [command |-> None, out |-> None]
       ELSE LET fsm_config_value == IF repo.fs_monitor_value_is_true
                                    THEN FsMonitorKey \o W_true ELSE FsMonitorKey
                c1 == CommandArgs(CommandEnv(created.v, GIT_OPTIONAL_LOCKS, W_0),
                                  << Flag_C, as_os_str(c.current_dir),
                                     Flag_git_dir, as_os_str(repo.path),
                                     Flag_c, fsm_config_value >>)
                c2 == IF IsSome(repo.workdir)
                      THEN CommandArgs(c1, << Flag_work_tree,
                                              as_os_str(Unwrap(repo.workdir)) >>)
                      ELSE c1
                c3 == CommandArgs(c2, git_args)
            IN [command |-> Some(c3),
                out |-> IF ~b.spawned THEN None ELSE exec_timeout_match(b.waited)]

\* the repositories exec_git is called on: with a work tree or bare, with
\* core.fsmonitor true, false or unset
GitRepos ==
    { discover(Some(GitRepo(g, w, Some(<<"m">>), f))).v :
        g \in {PathNew(<<"/", "h", "/", ".", "g">>), PathNew(<<"/", "a", "/", "r">>)},
        w \in {None, Some(PathNew(<<"/", "h">>))},
        f \in {None, Some(TRUE), Some(FALSE)} }

\* the current directories of the Context
GitDirs == {PathNew(<<"/", "h">>), PathNew(<<"/", "h", "/", "x">>), PathNew(<<"/">>)}

\* the caller's arguments; a caller may itself pass --work-tree
GitWords == {W_status, Flag_work_tree, Flag_c}

CallExecGit ==
    /\ op.pc = "idle"
    /\ \E repo \in GitRepos, dir \in GitDirs, b \in Behaviours,
          git_args \in SeqsUpTo(GitWords, MaxGitArgs) :
          op' = Finish("exec_git",
                       [repo |-> repo, current_dir |-> dir, git_args |-> git_args, b |-> b],
                       Returned(exec_git(repo, [DefaultContext EXCEPT !.current_dir = dir],
                                         git_args, b)))
    /\ UNCHANGED beside_op

NextGit == CallExecGit

SpecGit == InitOps /\ [][NextGit]_vars

GitCommandBuilt ==
    op.pc = "done" /\ op.name = "exec_git" /\ IsSome(op.ret.command)

\* the number of arguments exec_git puts before the caller's
GitPrefixLen(repo) == IF IsSome(repo.workdir) THEN 8 ELSE 6

\* C21: every command built by Repo::exec_git is git (as found in PATH) with
\* the arguments -C <current_dir> --git-dir <repo.path> -c core.fsmonitor=<true
\* or empty>, then --work-tree <workdir> iff the repository has a work tree,
\* then the caller's arguments in order, and GIT_OPTIONAL_LOCKS=0 is the
\* child's one added variable.
C21_GitCommandLine ==
    GitCommandBuilt =>
        LET command == Unwrap(op.ret.command)
            a == command.args
            repo == op.input.repo
            n == GitPrefixLen(repo)
        IN /\ command.program = Join(BinDir, <<W_git>>)
           /\ Len(a) = n + Len(op.input.git_args)
           /\ a[1] = Flag_C /\ a[2] = as_os_str(op.input.current_dir)
           /\ a[3] = Flag_git_dir /\ a[4] = as_os_str(repo.path)
           /\ a[5] = Flag_c
           /\ a[6] = (IF repo.fs_monitor_value_is_true THEN FsMonitorKey \o W_true
                      ELSE FsMonitorKey)
           /\ IsSome(repo.workdir) =>
                 a[7] = Flag_work_tree /\ a[8] = as_os_str(Unwrap(repo.workdir))
           /\ repo.kind = "Bare" => n = 6
           /\ SubSeq(a, n + 1, Len(a)) = op.input.git_args
           /\ command.envs = {<<GIT_OPTIONAL_LOCKS, W_0>>}

\* a bare repository and a caller that passes --work-tree itself: the command
\* holds that flag only as the caller's argument
C21_Witness ==
    /\ GitCommandBuilt
    /\ op.input.repo.kind = "Bare"
    /\ ~op.input.repo.fs_monitor_value_is_true
    /\ op.input.git_args = <<W_status, Flag_work_tree>>
    /\ Unwrap(op.ret.command).args[6] = FsMonitorKey
    /\ Unwrap(op.ret.command).args[7] = W_status
    /\ Len(Unwrap(op.ret.command).args) = 8

----------------------------------------------------------------------------
(* Context::exec_cmds_return_first, one alternative at a time *)

\* the state of commands.iter().find_map(..): the position of the iterator,
\* the alternatives exec_cmd was called on with what each call returned, and
\* how the call ended, if it has
FindMap(commands, run, i, tried, outcome, ret) ==
    [pc |-> IF outcome = "none" THEN "find_map" ELSE "done",
     name |-> "exec_cmds_return_first", commands |-> commands, run |-> run,
     i |-> i, tried |-> tried, outcome |-> outcome, ret |-> ret]

\* a mutation: every alternative is executed, and the first output is kept
find_map_next_runs_all(c, st, test) ==
    IF st.i > Len(st.commands)
    THEN FindMap(st.commands, st.run, st.i, st.tried, "returned", st.ret)
    ELSE LET attempt == st.commands[st.i]
         IN IF Len(attempt) = 0
            THEN FindMap(st.commands, st.run, st.i, st.tried, "panicked", None)
            ELSE LET out == exec_cmd(c, attempt[1], Tail(attempt), st.run, test)
                 IN FindMap(st.commands, st.run, st.i + 1,
                            Append(st.tried, <<st.i, out>>), "none",
                            IF IsSome(st.ret) THEN st.ret ELSE out)

\* one step of find_map: the iterator is exhausted and None is returned, or
\* the closure runs on the next alternative, which indexes attempt[0], calls
\* exec_cmd and ends the iteration if that gave an output
find_map_next(c, st, test) ==
    IF st.i > Len(st.commands)
    THEN FindMap(st.commands, st.run, st.i, st.tried, "returned", None)
    ELSE LET attempt == st.commands[st.i]
         IN IF Len(attempt) = 0
            THEN FindMap(st.commands, st.run, st.i, st.tried, "panicked", None)
            ELSE LET out == exec_cmd(c, attempt[1], Tail(attempt), st.run, test)
                 IN IF IsSome(out)
                    THEN FindMap(st.commands, st.run, st.i,
                                 Append(st.tried, <<st.i, out>>), "returned", out)
                    ELSE FindMap(st.commands, st.run, st.i + 1,
                                 Append(st.tried, <<st.i, out>>), "none", None)

\* exec_cmds_return_first is called
FirstBegin ==
    /\ op.pc = "idle"
    /\ \E commands \in SeqsUpTo(Attempts, MaxCommands),
          run \in [Attempts \ {<<>>} -> Behaviours] :
          op' = FindMap(commands, run, 1, <<>>, "none", None)
    /\ UNCHANGED beside_op

\* the closure runs on the next alternative
FirstTry ==
    /\ op.pc = "find_map"
    /\ op.i <= Len(op.commands)
    /\ op' = find_map_next(DefaultContext, op, cfg_test)
    /\ UNCHANGED beside_op

\* the iterator is exhausted
FirstExhausted ==
    /\ op.pc = "find_map"
    /\ op.i > Len(op.commands)
    /\ op' = find_map_next(DefaultContext, op, cfg_test)
    /\ UNCHANGED beside_op

NextFirst ==
    \/ FirstBegin
    \/ FirstTry
    \/ FirstExhausted

SpecFirst == InitOps /\ [][NextFirst]_vars

\* what exec_cmd gives for the alternative at position k
OutputOf(k) ==
    exec_cmd(DefaultContext, op.commands[k][1], Tail(op.commands[k]), op.run, cfg_test)

\* the alternative at position k ends the iteration: it gives an output, or
\* it is empty and cannot be indexed
Productive(k) == op.commands[k] # <<>> /\ IsSome(OutputOf(k))
Stops(k) == op.commands[k] = <<>> \/ Productive(k)

\* C22: exec_cmds_return_first tries the alternatives in list order and
\* returns the result of the first one that produces output; the alternatives
\* after it are not executed, and the call returns absence only when every
\* alternative yields absence.  (An empty alternative cannot be indexed: the
\* call panics there, having executed exactly the alternatives before it.)
C22_FirstProductiveInOrder ==
    (op.pc \in {"find_map", "done"} /\ op.name = "exec_cmds_return_first") =>
        /\ \A j \in 1..Len(op.tried) :
              /\ op.tried[j][1] = j
              /\ op.tried[j][2] = OutputOf(j)
              /\ j < Len(op.tried) => ~IsSome(op.tried[j][2])
        /\ op.pc = "done" =>
              LET stops == {k \in 1..Len(op.commands) : Stops(k)}
              IN IF stops = {}
                 THEN /\ op.outcome = "returned" /\ op.ret = None
                      /\ Len(op.tried) = Len(op.commands)
                 ELSE LET k == SetMin(stops)
                      IN IF Productive(k)
                         THEN /\ op.outcome = "returned" /\ op.ret = OutputOf(k)
                              /\ Len(op.tried) = k
                         ELSE /\ op.outcome = "panicked"
                              /\ Len(op.tried) = k - 1
        /\ (op.pc = "done" /\ op.outcome # "panicked") =>
              Returned(op.ret) =
                  exec_cmds_return_first(DefaultContext, op.commands, op.run, cfg_test)

\* two alternatives that would both give an output: only the first is run
C22_Witness ==
    /\ op.pc = "done" /\ op.name = "exec_cmds_return_first"
    /\ Len(op.commands) = 2
    /\ Productive(1) /\ Productive(2)
    /\ op.commands[1] # op.commands[2]
    /\ Len(op.tried) = 1
    /\ op.outcome = "returned" /\ IsSome(op.ret)

----------------------------------------------------------------------------
(* Context::detect_env_vars *)

\* the number of entries of the list given to detect_env_vars
MaxVars == 3

\* Context::get_env: the value of the variable, if the environment holds it
get_env(c, key) == MapGet(c.env, key)

\* str::strip_prefix('!')
strip_prefix(s, ch) == IF StartsWith(s, ch) THEN Some(Rest(s)) ELSE None

\* Iterator::any over a sequence
iter_any(seq, P(_)) == \E i \in 1..Len(seq) : P(seq[i])

\* Context::has_negated_env_var
has_negated_env_var(c, env_vars) ==
    LET Present(env_var) ==
            /\ IsSome(strip_prefix(env_var, "!"))
            /\ IsSome(get_env(c, Unwrap(strip_prefix(env_var, "!"))))
    IN iter_any(env_vars, Present)

\* a mutation: a list of negated names only is not enough
detect_env_vars_needs_positive(c, env_vars) ==
    IF env_vars = <<>> THEN TRUE
    ELSE IF has_negated_env_var(c, env_vars) THEN FALSE
    ELSE LET Set(env_var) == ~StartsWith(env_var, "!") /\ IsSome(get_env(c, env_var))
         IN iter_any(env_vars, Set)

\* Context::detect_env_vars
detect_env_vars(c, env_vars) ==
    IF env_vars = <<>> THEN TRUE
    ELSE IF has_negated_env_var(c, env_vars) THEN FALSE
    ELSE LET iter == SelectSeq(env_vars, LAMBDA env_var : ~StartsWith(env_var, "!"))
             Set(env_var) == IsSome(get_env(c, env_var))
         IN iter = <<>> \/ iter_any(iter, Set)

\* the names of two variables, and the entries of the lists
VarNames == {<<"A">>, <<"B">>}
VarEntries == VarNames \cup {<<"!">> \o v : v \in VarNames}

\* the environments: each variable is set to "1" or not set
Environments == { {<<v, <<"1">>>> : v \in S} : S \in SUBSET VarNames }

CallDetectEnvVars ==
    /\ op.pc = "idle"
    /\ \E env \in Environments, env_vars \in SeqsUpTo(VarEntries, MaxVars) :
          op' = Finish("detect_env_vars", [env |-> env, env_vars |-> env_vars],
                       Returned(detect_env_vars([DefaultContext EXCEPT !.env = env],
                                                env_vars)))
    /\ UNCHANGED beside_op

NextEnv == CallDetectEnvVars

SpecEnv == InitOps /\ [][NextEnv]_vars

Detected == op.pc = "done" /\ op.name = "detect_env_vars"

\* the variable v is set in the environment of the call
IsSet(v) == \E kv \in op.input.env : kv[1] = v

\* the entries that name a variable to find, and the variables named by the
\* entries that begin with '!'
Wanted_vars == {op.input.env_vars[i] : i \in 1..Len(op.input.env_vars)} \cap VarNames
Negated_vars ==
    {v \in VarNames : \E i \in 1..Len(op.input.env_vars) :
                         op.input.env_vars[i] = <<"!">> \o v}

----------------------------------------------------------------------------
(* utils::render_time *)

\* the number of whole days in the times rendered
MaxDays == 1

DigitChars == <<"0", "1", "2", "3", "4", "5", "6", "7", "8", "9">>

RECURSIVE to_string(_)
\* u128::to_string: the decimal digits, without leading zeros
to_string(n) ==
    IF n < 10 THEN <<DigitChars[n + 1]>>
    ELSE to_string(n \div 10) \o <<DigitChars[(n % 10) + 1]>>

RECURSIVE FoldComponents(_, _)
\* a mutation: a unit that is zero is never written
FoldComponents_skips_zero(components, acc) ==
    IF components = <<>> THEN acc
    ELSE LET component == Head(components)[1]
             suffix == Head(components)[2]
         IN FoldComponents(Tail(components),
                           IF component = 0 THEN acc
                           ELSE acc \o to_string(component) \o suffix)

\* components.iter().fold(String, |acc, (component, suffix)| ..): a zero
\* component is dropped while nothing has been written yet
FoldComponents(components, acc) ==
    IF components = <<>> THEN acc
    ELSE LET component == Head(components)[1]
             suffix == Head(components)[2]
         IN FoldComponents(Tail(components),
                           IF component = 0 /\ acc = <<>> THEN acc
                           ELSE acc \o to_string(component) \o suffix)

\* utils::render_time
render_time(raw_millis, show_millis) ==
    IF raw_millis = 0 /\ show_millis THEN <<"0", "m", "s">>
    ELSE IF raw_millis <= 999 /\ ~show_millis THEN <<"0", "s">>
    ELSE LET millis == raw_millis % 1000
             raw_seconds == raw_millis \div 1000
             seconds == raw_seconds % 60
             raw_minutes == raw_seconds \div 60
             minutes == raw_minutes % 60
             raw_hours == raw_minutes \div 60
             hours == raw_hours % 24
             days == raw_hours \div 24
             components == << <<days, <<"d">>>>, <<hours, <<"h">>>>,
                              <<minutes, <<"m">>>>, <<seconds, <<"s">>>> >>
             result == FoldComponents(components, <<>>)
         IN IF show_millis THEN result \o to_string(millis) \o <<"m", "s">>
            ELSE result

\* the times rendered: every unit at zero, at one and at its largest value
TimeValues ==
    { (((d * 24 + h) * 60 + mi) * 60 + s) * 1000 + ms :
        d \in 0..MaxDays, h \in {0, 1, 23}, mi \in {0, 1, 59}, s \in {0, 1, 59},
        ms \in {0, 1, 999} }

CallRenderTime ==
    /\ op.pc = "idle"
    /\ \E n \in TimeValues, show_millis \in BOOLEAN :
          op' = Finish("render_time", [raw_millis |-> n, show_millis |-> show_millis],
                       Returned(render_time(n, show_millis)))
    /\ UNCHANGED beside_op

NextTime == CallRenderTime

SpecTime == InitOps /\ [][NextTime]_vars

Rendered == op.pc = "done" /\ op.name = "render_time"

\* the decomposition of n milliseconds, written from the first unit that is
\* not zero on
Written(n) ==
    LET d == n \div 86400000
        h == (n \div 3600000) % 24
        mi == (n \div 60000) % 60
        s == (n \div 1000) % 60
        D == to_string(d) \o <<"d">>
        H == to_string(h) \o <<"h">>
        M == to_string(mi) \o <<"m">>
        S == to_string(s) \o <<"s">>
    IN IF d > 0 THEN D \o H \o M \o S
       ELSE IF h > 0 THEN H \o M \o S
       ELSE IF mi > 0 THEN M \o S
       ELSE IF s > 0 THEN S
       ELSE <<>>

\* C24: render_time(n, show_millis) is the decomposition of n into days,
\* hours, minutes and seconds from the first non-zero unit on, every later
\* unit included even when zero, followed by "<n mod 1000>ms" when
\* show_millis is set; n = 0 with show_millis gives "0ms" and n below 1000
\* without show_millis gives "0s".
C24_RenderTime ==
    Rendered =>
        LET n == op.input.raw_millis
        IN IF op.input.show_millis
           THEN /\ op.ret = Written(n) \o to_string(n % 1000) \o <<"m", "s">>
                /\ n = 0 => op.ret = <<"0", "m", "s">>
           ELSE IF n < 1000 THEN op.ret = <<"0", "s">>
           ELSE op.ret = Written(n)

\* one day exactly, without milliseconds: "1d0h0m0s"
C24_Witness ==
    /\ Rendered
    /\ op.input.raw_millis = 86400000
    /\ ~op.input.show_millis
    /\ op.ret = <<"1", "d", "0", "h", "0", "m", "0", "s">>

----------------------------------------------------------------------------
(* wrap_seq_for_shell, one character at a time *)

\* a mutation: a begin delimiter opens a marker even inside an escape
map_closure_reopens(x, escaped, mk, escape_begin, escape_end) ==
    IF x = escape_begin
    THEN [piece |-> mk.beg \o <<escape_begin>>, escaped |-> TRUE, emitted |-> "open"]
    ELSE IF x = escape_end /\ escaped
    THEN [piece |-> <<escape_end>> \o mk.end, escaped |-> FALSE, emitted |-> "close"]
    ELSE [piece |-> <<x>>, escaped |-> escaped, emitted |-> "none"]

\* the closure given to ansi.chars().map(..), on one character: what it
\* returns, the flag it leaves, and the marker it has put in, if any
map_closure(x, escaped, mk, escape_begin, escape_end) ==
    IF x = escape_begin /\ ~escaped
    THEN [piece |-> mk.beg \o <<escape_begin>>, escaped |-> TRUE, emitted |-> "open"]
    ELSE IF x = escape_end /\ escaped
    THEN [piece |-> <<escape_end>> \o mk.end, escaped |-> FALSE, emitted |-> "close"]
    ELSE [piece |-> <<x>>, escaped |-> escaped, emitted |-> "none"]

\* the shells of the scan: the three that have markers, and one that has none
ScannedShells == {"Bash", "Zsh", "Tcsh", "Fish"}

\* wrap_seq_for_shell is called; a shell without markers gets the text back
WrapBegin ==
    /\ op.pc = "idle"
    /\ \E shell \in ScannedShells :
       \E ansi \in SeqsUpTo(TextChars(shell), MaxText), d \in Delimiters(shell) :
          op' = [pc |-> IF IsSome(Markers(shell)) THEN "map" ELSE "done",
                 name |-> "wrap_seq_for_shell_scan",
                 ansi |-> ansi, shell |-> shell,
                 escape_begin |-> d[1], escape_end |-> d[2],
                 i |-> 1, escaped |-> FALSE, steps |-> <<>>,
                 outcome |-> IF IsSome(Markers(shell)) THEN "none" ELSE "returned",
                 ret |-> IF IsSome(Markers(shell)) THEN <<>> ELSE ansi]
    /\ UNCHANGED beside_op

\* the closure runs on the next character
WrapChar ==
    /\ op.pc = "map"
    /\ op.i <= Len(op.ansi)
    /\ LET r == map_closure(op.ansi[op.i], op.escaped, Unwrap(Markers(op.shell)),
                            op.escape_begin, op.escape_end)
       IN op' = [op EXCEPT !.i = @ + 1,
                           !.escaped = r.escaped,
                           !.steps = Append(@, [x |-> op.ansi[op.i], inside |-> op.escaped,
                                                piece |-> r.piece, emitted |-> r.emitted])]
    /\ UNCHANGED beside_op

\* .collect(): the pieces, joined, are the result
WrapCollect ==
    /\ op.pc = "map"
    /\ op.i > Len(op.ansi)
    /\ op' = [op EXCEPT !.pc = "done", !.outcome = "returned",
                        !.ret = Flatten([k \in 1..Len(op.steps) |-> op.steps[k].piece])]
    /\ UNCHANGED beside_op

NextWrapScan ==
    \/ WrapBegin
    \/ WrapChar
    \/ WrapCollect

SpecWrapScan == InitOps /\ [][NextWrapScan]_vars

Scanning ==
    /\ op.pc \in {"map", "done"}
    /\ op.name = "wrap_seq_for_shell_scan"
    /\ op.shell \in {"Bash", "Zsh", "Tcsh"}

\* the markers put in so far, in order
EmittedMarkers ==
    LET all == [k \in 1..Len(op.steps) |-> op.steps[k].emitted]
    IN SelectSeq(all, LAMBDA e : e # "none")

\* the occurrences of the marker m in the text s
Occurrences(s, m) == {k \in 1..(Len(s) - 1) : SubSeq(s, k, k + 1) = m}

\* no character of the text is a character of a marker
FreeOfMarkerChars(s, mk) ==
    \A k \in 1..Len(s) :
        \A j \in 1..2 : s[k] # mk.beg[j] /\ s[k] # mk.end[j]

\* C25: for Bash, Zsh and Tcsh the scan has two states: an open marker is
\* put in only before a begin delimiter seen outside an escape, a close
\* marker only after an end delimiter seen inside one, and every other
\* character passes through unchanged; the markers put in alternate, open
\* first, and there is at most one more open marker than close markers.
C25_TwoStateScan ==
    Scanning =>
        LET mk == Unwrap(Markers(op.shell))
            em == EmittedMarkers
            opens == Cardinality({k \in 1..Len(em) : em[k] = "open"})
            closes == Cardinality({k \in 1..Len(em) : em[k] = "close"})
        IN /\ \A k \in 1..Len(op.steps) :
                 LET st == op.steps[k]
                 IN /\ st.emitted = "open" <=> (st.x = op.escape_begin /\ ~st.inside)
                    /\ st.emitted = "close" <=>
                          (st.x = op.escape_end /\ st.inside)
                    /\ st.emitted = "open" => st.piece = mk.beg \o <<st.x>>
                    /\ st.emitted = "close" => st.piece = <<st.x>> \o mk.end
                    /\ st.emitted = "none" => st.piece = <<st.x>>
           /\ \A k \in 1..Len(em) : em[k] = (IF k % 2 = 1 THEN "open" ELSE "close")
           /\ opens - closes \in {0, 1}
           /\ op.escaped <=> opens = closes + 1
           /\ op.pc = "done" =>
                 /\ op.ret = wrap_seq_for_shell(op.ansi, op.shell, op.escape_begin,
                                                op.escape_end)
                 /\ (/\ FreeOfMarkerChars(op.ansi, mk)) =>
                       /\ Cardinality(Occurrences(op.ret, mk.beg)) = opens
                       /\ Cardinality(Occurrences(op.ret, mk.end)) = closes

\* a begin delimiter inside an escape and an end delimiter outside one both
\* pass through: "EEmm" wrapped for Zsh is "%{EEm%}m"
C25_Witness ==
    /\ Scanning /\ op.pc = "done"
    /\ op.shell = "Zsh"
    /\ op.ansi = <<"E", "E", "m", "m">>
    /\ op.escape_begin = "E" /\ op.escape_end = "m"
    /\ EmittedMarkers = <<"open", "close">>
    /\ op.ret = <<"%", "{", "E", "E", "m", "%", "}", "m">>

----------------------------------------------------------------------------
(* DirContents::from_path_with_timeout on large directories: the budget *)

\* the number of times CHECK_EVERY entries are listed before the last ones
MaxBlocks == 2

\* the entry of (1-based) position i of a large directory: most are files
\* named by their position, some are directories, some cannot be read
BigEntry(i) ==
    IF i % 7 = 0 THEN BadEntry
    ELSE IF i % 5 = 0 THEN Entry(to_string(i), "dir")
    ELSE Entry(to_string(i), "file")

\* what fs::read_dir finds in a directory of `size` entries
BigDir(size) == Readable([i \in 1..size |-> BigEntry(i)])

\* the sizes: none, one, and one less than, exactly and one more than each
\* multiple of CHECK_EVERY
DirSizes ==
    {0, 1} \cup {CHECK_EVERY * k + j : k \in 1..MaxBlocks, j \in {-1, 0, 1}}

\* the readings of the clock, one for each check, never going back
BudgetClocks ==
    {c \in [1..(MaxBlocks + 1) -> {0, SCAN_TIMEOUT_DEFAULT - 1, SCAN_TIMEOUT_DEFAULT}] :
        \A k \in 1..MaxBlocks : c[k] <= c[k + 1]}

\* a mutation: the clock is read at every entry
take_while_reads_always(n, timeout, clock, test) ==
    IF test THEN [pass |-> TRUE, read |-> FALSE]
    ELSE [pass |-> Elapsed(clock, n) < timeout, read |-> TRUE]

\* the take_while closure on the entry of (0-based) index n: whether the
\* entry is let through, and whether start.elapsed() was evaluated; || does
\* not evaluate its right side when its left side is true
take_while(n, timeout, clock, test) ==
    IF test THEN [pass |-> TRUE, read |-> FALSE]
    ELSE IF n % CHECK_EVERY # 0 THEN [pass |-> TRUE, read |-> FALSE]
    ELSE [pass |-> Elapsed(clock, n) < timeout, read |-> TRUE]

\* from_path_with_timeout is called on a readable directory
BudgetBegin ==
    /\ op.pc = "idle"
    /\ \E size \in DirSizes, timeout \in Timeouts, clock \in BudgetClocks :
          op' = [pc |-> "take_while", name |-> "from_path_with_timeout_scan",
                 size |-> size, timeout |-> timeout, clock |-> clock,
                 n |-> 0, reads |-> <<>>, outcome |-> "none", ret |-> Err("unset")]
    /\ UNCHANGED beside_op

\* read_dir yields the next entry and take_while lets it through or ends the
\* iteration, after which the index is made of the entries let through
BudgetEntry ==
    /\ op.pc = "take_while"
    /\ op.n < op.size
    /\ LET r == take_while(op.n, op.timeout, op.clock, cfg_test)
           reads == IF r.read THEN Append(op.reads, op.n) ELSE op.reads
       IN op' = IF r.pass
                THEN [op EXCEPT !.n = @ + 1, !.reads = reads]
                ELSE [op EXCEPT !.pc = "done", !.reads = reads, !.outcome = "returned",
                                !.ret = Ok(BuildIndex(SubSeq(BigDir(op.size).entries, 1, op.n),
                                                      TRUE))]
    /\ UNCHANGED beside_op

\* read_dir has no more entries
BudgetEnd ==
    /\ op.pc = "take_while"
    /\ op.n = op.size
    /\ op' = [op EXCEPT !.pc = "done", !.outcome = "returned",
                        !.ret = Ok(BuildIndex(SubSeq(BigDir(op.size).entries, 1, op.n),
                                              TRUE))]
    /\ UNCHANGED beside_op

NextBudget ==
    \/ BudgetBegin
    \/ BudgetEntry
    \/ BudgetEnd

SpecBudget == InitOps /\ [][NextBudget]_vars

BudgetScan == op.pc \in {"take_while", "done"} /\ op.name = "from_path_with_timeout_scan"

\* C26: outside test builds the scan compares the elapsed time with the budget
\* only at the entries whose index is a multiple of 256, index 0 included;
\* when a check fails, that entry and all later ones are skipped, so the index
\* of a timed-out scan is made of exactly the first 256*k entries, and is
\* empty when the budget is spent at the first entry.
C26_BudgetCheckedEvery256 ==
    (BudgetScan /\ ~cfg_test) =>
        /\ \A j \in 1..Len(op.reads) : op.reads[j] = CHECK_EVERY * (j - 1)
        /\ \A k \in 0..MaxBlocks :
              (CHECK_EVERY * k < op.n) =>
                  /\ k + 1 <= Len(op.reads)
                  /\ op.clock[k + 1] < op.timeout
        /\ op.pc = "done" =>
              /\ op.ret = from_path_with_timeout(BigDir(op.size), op.timeout, TRUE,
                                                 op.clock, cfg_test)
              /\ op.n < op.size =>
                    /\ op.n % CHECK_EVERY = 0
                    /\ op.reads # <<>> /\ op.reads[Len(op.reads)] = op.n
                    /\ Elapsed(op.clock, op.n) >= op.timeout
              /\ op.ret = Ok(BuildIndex([i \in 1..op.n |-> BigEntry(i)], TRUE))
              /\ (op.size > 0 /\ op.clock[1] >= op.timeout) =>
                    op.ret = Ok([files |-> {}, file_names |-> {}, folders |-> {},
                                 extensions |-> {}])

\* the budget lasts through the first check and is spent at the second: the
\* index holds the first 256 entries of a larger directory, and no more
C26_Witness ==
    /\ BudgetScan /\ op.pc = "done" /\ ~cfg_test
    /\ op.size = CHECK_EVERY + 1
    /\ op.n = CHECK_EVERY
    /\ op.reads = <<0, CHECK_EVERY>>
    /\ to_string(CHECK_EVERY) \in op.ret.v.file_names
    /\ to_string(CHECK_EVERY + 1) \notin op.ret.v.file_names

----------------------------------------------------------------------------
(* exec_timeout, with the time that passes while it waits *)

\* the time limits given to exec_timeout, in milliseconds
TimeLimits == {0, COMMAND_TIMEOUT_DEFAULT}

InitLimit ==
    /\ cfg_test \in BOOLEAN
    /\ \E limit \in TimeLimits :
          proc = [pc |-> "create_command", time_limit |-> limit,
                  which |-> "unset", spawn |-> "unset", child |-> "none",
                  run_time |-> 0, waited |-> NoWait, ret |-> None, elapsed |-> 0]
    /\ world = Off /\ ctx = Off /\ once = Off /\ threads = Off /\ hist = Off /\ runs = Off
    /\ scandir = Off /\ scan = Off /\ anc = Off /\ op = Off

\* what a child writes to a stream: nothing, a letter, a byte that is no text
LimitOutputs == {<<>>, <<104>>, <<255>>}

\* the moments at which something happens to a waiting exec_timeout: the
\* child exits, the limit is reached
Moments(p) == {p.run_time, p.time_limit}

\* a mutation: Ok(None) is returned with the child left as it is
wait_timed_out_without_terminate(p) ==
    [p EXCEPT !.pc = "match", !.waited = Waited("timeout", 0, <<>>, <<>>)]

\* .time_limit(time_limit).terminate_for_timeout().wait() when the limit is
\* reached: the child is terminated and Ok(None) is returned
wait_timed_out(p) ==
    [p EXCEPT !.pc = "match", !.child = "terminated",
              !.waited = Waited("timeout", 0, <<>>, <<>>)]

\* time passes while wait() blocks, up to the next moment
LimitTick ==
    /\ proc.pc = "wait"
    /\ \E t \in Moments(proc) :
          /\ t > proc.elapsed
          /\ \A u \in Moments(proc) : u > proc.elapsed => t <= u
          /\ proc' = [proc EXCEPT !.elapsed = t]
    /\ UNCHANGED beside_proc

\* the child has exited within the limit: wait() returns its output
LimitExited ==
    /\ proc.pc = "wait"
    /\ proc.elapsed >= proc.run_time
    /\ proc.run_time <= proc.time_limit
    /\ \E status \in ExitStatuses, out \in LimitOutputs, err \in LimitOutputs :
          proc' = [proc EXCEPT !.pc = "match", !.child = "exited",
                               !.waited = Waited("output", status, out, err)]
    /\ UNCHANGED beside_proc

\* the limit is reached while the child runs
LimitTimedOut ==
    /\ proc.pc = "wait"
    /\ proc.elapsed >= proc.time_limit
    /\ proc.run_time >= proc.time_limit
    /\ proc' = wait_timed_out(proc)
    /\ UNCHANGED beside_proc

\* wait() fails with an I/O error
LimitFailed ==
    /\ proc.pc = "wait"
    /\ proc' = [proc EXCEPT !.pc = "match",
                            !.child = IF proc.elapsed >= proc.run_time THEN "exited"
                                      ELSE "running",
                            !.waited = Waited("error", 0, <<>>, <<>>)]
    /\ UNCHANGED beside_proc

NextLimit ==
    \/ CreateCommand
    \/ Spawn
    \/ LimitTick
    \/ LimitExited
    \/ LimitTimedOut
    \/ LimitFailed
    \/ ExecTimeoutReturn

\* the steps of the calling thread are taken, time passes, and a wait() that
\* can return does; that wait() fails is never required
SpecLimit ==
    /\ InitLimit /\ [][NextLimit]_vars
    /\ WF_vars(CreateCommand) /\ WF_vars(Spawn) /\ WF_vars(LimitTick)
    /\ WF_vars(LimitExited \/ LimitTimedOut) /\ WF_vars(ExecTimeoutReturn)

\* exec_timeout has returned although its child was spawned
ReturnedFromWait == proc.pc = "done" /\ proc.spawn = "ok"

\* C27: every command execution terminates: exec_timeout returns once the
\* child has exited or the time limit has elapsed, and when it returns because
\* the limit elapsed the child has been terminated and the result is absence.
C27_ExecTerminates ==
    /\ <>(proc.pc = "done")
    /\ [](ReturnedFromWait =>
             /\ proc.waited.kind = "output" =>
                   proc.child = "exited" /\ proc.elapsed >= proc.run_time
             /\ proc.waited.kind = "timeout" =>
                   /\ proc.elapsed >= proc.time_limit
                   /\ proc.child = "terminated"
                   /\ proc.ret = None)

\* a child that would run twice the limit: exec_timeout returns nothing when
\* the limit is reached, and the child has been terminated
C27_Witness ==
    /\ ReturnedFromWait
    /\ proc.time_limit = COMMAND_TIMEOUT_DEFAULT
    /\ proc.run_time = 2 * COMMAND_TIMEOUT_DEFAULT
    /\ proc.elapsed = COMMAND_TIMEOUT_DEFAULT
    /\ proc.waited.kind = "timeout"
    /\ proc.child = "terminated"
    /\ proc.ret = None

----------------------------------------------------------------------------
(* Context::read_file_from_pwd *)

\* the current directory with what its files hold: `data` gives the bytes of
\* each regular file
Pwd(entries, data) == [dir |-> Readable(entries), data |-> data, clock |-> <<0>>]

F_f == <<"f">>
F_bang_f == <<"!", "f">>
F_g == <<"g">>

\* the current directory at different times: empty; f with text; f with bytes
\* that are no text; f a directory; f a symlink to a directory; f and a file
\* named !f; a directory that cannot be listed
Pwds ==
    { Pwd(<<>>, {}),
      Pwd(<<Entry(F_f, "file")>>, {<<F_f, <<104>>>>}),
      Pwd(<<Entry(F_f, "file")>>, {<<F_f, <<255>>>>}),
      Pwd(<<Entry(F_f, "dir")>>, {}),
      Pwd(<<Entry(F_f, "symlink_dir")>>, {}),
      Pwd(<<Entry(F_f, "file"), Entry(F_bang_f, "file")>>,
          {<<F_f, <<104>>>>, <<F_bang_f, <<104, 104>>>>}),
      [dir |-> Unreadable("PermissionDenied"), data |-> {}, clock |-> <<0>>] }

FileNames == {F_f, F_bang_f, F_g}

\* std::fs::read_to_string(current_dir.join(file_name)): the text of a regular
\* file whose bytes are valid UTF-8, an error otherwise
read_to_string(w, file_name) ==
    IF ~w.dir.readable THEN Err("PermissionDenied")
    ELSE IF ~\E i \in 1..Len(w.dir.entries) : w.dir.entries[i].name = file_name
    THEN Err("NotFound")
    ELSE LET e == CHOOSE e \in {w.dir.entries[i] : i \in 1..Len(w.dir.entries)} :
                      e.name = file_name
         IN IF e.kind \in {"dir", "symlink_dir"} THEN Err("IsADirectory")
            ELSE IF ~IsSome(MapGet(w.data, file_name)) THEN Err("NotFound")
            ELSE from_utf8(Unwrap(MapGet(w.data, file_name)))

\* utils::read_file
read_file(w, file_name) == read_to_string(w, file_name)

\* Context::try_begin_scan, given the cell of dir_contents as dir_contents()
\* leaves it
try_begin_scan(cell) ==
    IF ~IsOk(Unwrap(cell)) THEN None
    ELSE Some([dir_contents |-> Unwrap(cell).v, files |-> <<>>, folders |-> <<>>,
               extensions |-> <<>>])

\* a mutation: the file is read whatever the index says
read_file_from_pwd_reads_anyway(c, file_name, w, test) ==
    LET cell == IF dir_contents(c, IF IsSome(c.dir_contents) THEN "complete"
                                   ELSE "incomplete") = "hit"
                THEN c.dir_contents
                ELSE Some(scan_current_dir(c, w, test))
        read == read_file(w, file_name)
    IN [dir_contents |-> cell, attempted |-> TRUE,
        ret |-> IF IsOk(read) THEN Some(read.v) ELSE None]

\* Context::read_file_from_pwd, with the directory `w` as it is at the time of
\* the call: the cell of dir_contents after the call, whether the file was
\* read, and the value returned
read_file_from_pwd(c, file_name, w, test) ==
    LET cell == IF dir_contents(c, IF IsSome(c.dir_contents) THEN "complete"
                                   ELSE "incomplete") = "hit"
                THEN c.dir_contents
                ELSE Some(scan_current_dir(c, w, test))
        begun == try_begin_scan(cell)
    IN IF ~IsSome(begun) THEN [dir_contents |-> cell, attempted |-> FALSE, ret |-> None]
       ELSE IF ~is_match([Unwrap(begun) EXCEPT !.files = <<file_name>>])
       THEN [dir_contents |-> cell, attempted |-> FALSE, ret |-> None]
       ELSE LET read == read_file(w, file_name)
            IN [dir_contents |-> cell, attempted |-> TRUE,
                ret |-> IF IsOk(read) THEN Some(read.v) ELSE None]

\* a Context is made in a current directory
PwdStart ==
    /\ op.pc = "idle"
    /\ \E w \in Pwds, follow \in BOOLEAN :
          op' = [pc |-> "ready", name |-> "read_file_from_pwd", outcome |-> "none",
                 c |-> [DefaultContext EXCEPT !.root_config.follow_symlinks = follow],
                 w |-> w, first |-> None, changed |-> FALSE]
    /\ UNCHANGED beside_op

\* a consumer calls dir_contents(): the index is computed and cached
PwdIndexed ==
    /\ op.pc = "ready"
    /\ ~IsSome(op.c.dir_contents)
    /\ op' = [op EXCEPT !.c.dir_contents = Some(scan_current_dir(op.c, op.w, cfg_test)),
                        !.first = Some(op.w)]
    /\ UNCHANGED beside_op

\* outside the process, the directory changes
PwdChanges ==
    /\ op.pc = "ready"
    /\ ~op.changed
    /\ \E w \in Pwds :
          /\ w # op.w
          /\ op' = [op EXCEPT !.w = w, !.changed = TRUE]
    /\ UNCHANGED beside_op

\* read_file_from_pwd is called
PwdRead ==
    /\ op.pc = "ready"
    /\ \E file_name \in FileNames :
          LET r == read_file_from_pwd(op.c, file_name, op.w, cfg_test)
          IN op' = [op EXCEPT !.pc = "done", !.outcome = "returned",
                              !.c.dir_contents = r.dir_contents,
                              !.first = IF IsSome(op.first) THEN op.first ELSE Some(op.w)]
                   @@ [file_name |-> file_name, before |-> op.c.dir_contents,
                       attempted |-> r.attempted, ret |-> r.ret]
    /\ UNCHANGED beside_op

NextPwd ==
    \/ PwdStart
    \/ PwdIndexed
    \/ PwdChanges
    \/ PwdRead

SpecPwd == InitOps /\ [][NextPwd]_vars

ReadDone == op.pc = "done" /\ op.name = "read_file_from_pwd"

\* the top-level file names of the directory as it was when the index was
\* first computed, hidden files included: the entries that are not folders
NamesAtFirstScan ==
    LET w == Unwrap(op.first)
    IN {w.dir.entries[i].name : i \in
          {j \in 1..Len(w.dir.entries) :
              ~(w.dir.entries[j].kind = "dir"
                \/ (w.dir.entries[j].kind = "symlink_dir"
                    /\ op.c.root_config.follow_symlinks))}}

\* C28: read_file_from_pwd(name) returns absence without attempting to read
\* the file whenever the cached index is unavailable or does not list name as
\* a top-level file name, also for a file created after the index was first
\* computed; only when the index lists the name is current_dir/name read, and
\* a failed read gives absence too.
C28_ReadOnlyWhatIsIndexed ==
    ReadDone =>
        LET w0 == Unwrap(op.first)
            listed == w0.dir.readable /\ op.file_name \in NamesAtFirstScan
        IN /\ IsSome(op.before) => op.c.dir_contents = op.before
           /\ IsOk(Unwrap(op.c.dir_contents)) <=> w0.dir.readable
           /\ ~listed => (~op.attempted /\ op.ret = None)
           /\ op.attempted <=> (listed /\ ~StartsWith(op.file_name, "!"))
           /\ op.attempted =>
                 op.ret = (IF IsOk(read_to_string(op.w, op.file_name))
                           THEN Some(read_to_string(op.w, op.file_name).v)
                           ELSE None)
           /\ ~op.attempted => op.ret = None

\* the index is computed while the directory is empty, then f is created
\* with text in it: read_file_from_pwd("f") returns nothing and reads nothing
C28_Witness ==
    /\ ReadDone
    /\ IsSome(op.before)
    /\ Unwrap(op.first) = Pwd(<<>>, {})
    /\ op.w = Pwd(<<Entry(F_f, "file")>>, {<<F_f, <<104>>>>})
    /\ op.file_name = F_f
    /\ ~op.attempted
    /\ op.ret = None

----------------------------------------------------------------------------
(* ScanAncestors::scan from a path that does not exist *)

\* the starting path and its ancestors that exist, the closest first
ExistingLevels ==
    LET up == [i \in 1..(Len(anc.path) + 1) |-> SubSeq(anc.path, 1, Len(anc.path) + 1 - i)]
    IN SelectSeq(up, LAMBDA q : Lookup(anc.nodes, q) # {})

StartMissing == Lookup(anc.nodes, anc.path) = {}

\* C29, as stated: where the device identifier comes from the metadata, a
\* scan started from a path that does not exist returns nothing, even when an
\* existing ancestor directly contains a marker.
C29_MissingStartFindsNothing ==
    (anc.pc = "done" /\ anc.platform # "windows" /\ StartMissing) => anc.ret = None

\* C29, amended: where the device identifier comes from the metadata, a scan
\* started from a path that does not exist, one of whose ancestors exists,
\* returns nothing even when that ancestor directly contains a marker: the
\* start has no device identifier, the first existing ancestor has one, and
\* that difference ends the walk.  When no ancestor exists (a relative path
\* below a missing directory) the walk reaches the empty path, which has no
\* device identifier either, and the markers are probed in the working
\* directory: the result is then nothing or the empty path.
C29_MissingStartStopsAtExisting ==
    (anc.pc = "done" /\ anc.platform # "windows" /\ StartMissing) =>
        /\ anc.initial_device_id = None
        /\ \A i \in 1..Len(anc.probes) : Lookup(anc.nodes, anc.probes[i].at) = {}
        /\ ExistingLevels # <<>> =>
              /\ anc.ret = None
              /\ IsSome(device_id(anc.nodes, anc.platform, Head(ExistingLevels)))
              /\ anc.examined[Len(anc.examined)] = Head(ExistingLevels)
        /\ ExistingLevels = <<>> =>
              /\ anc.examined[Len(anc.examined)] = <<>>
              /\ anc.ret \in {None, Some(<<>>)}
              /\ anc.ret = Some(<<>>) <=>
                    \/ \E k \in 1..Len(anc.files) : is_file(anc.nodes, <<anc.files[k]>>)
                    \/ \E k \in 1..Len(anc.folders) :
                          path_is_dir(anc.nodes, <<anc.folders[k]>>)

\* the start does not exist, its parent does and holds the marker file asked
\* for: the walk ends at the parent and returns nothing
C29_Witness ==
    /\ anc.pc = "done"
    /\ anc.platform = "linux"
    /\ StartMissing
    /\ anc.files = <<Marker>>
    /\ ExistingLevels # <<>>
    /\ Head(ExistingLevels) = Pop(anc.path)
    /\ is_file(anc.nodes, Append(Pop(anc.path), Marker))
    /\ Len(anc.probes) = 1
    /\ anc.ret = None

----------------------------------------------------------------------------
(* ScanAncestors::scan: the walk ends *)

\* the levels of the chain on one device: the first ones exist, with the
\* marker name absent, a file or a directory in each
ClimbSets(depth) ==
    {levels \in LevelSets(depth) :
        \A k \in 1..(depth + 1) : levels[k].dev \in {None, Some(1)}}

InitClimb ==
    /\ cfg_test = FALSE
    /\ \E levels \in ClimbSets(MaxDepth), files \in NameLists, folders \in MarkerLists,
          platform \in {"linux", "windows"}, relative \in BOOLEAN :
          anc = [pc |-> "start",
                 nodes |-> Nodes(levels),
                 platform |-> platform,
                 path |-> IF relative THEN Tail(ChainPath(MaxDepth)) ELSE ChainPath(MaxDepth),
                 files |-> files,
                 folders |-> folders,
                 initial_device_id |-> None,
                 buf |-> <<>>,
                 k |-> 0,
                 probes |-> <<>>,
                 examined |-> <<>>,
                 ret |-> None]
    /\ world = Off /\ ctx = Off /\ once = Off /\ threads = Off /\ hist = Off /\ runs = Off
    /\ scandir = Off /\ scan = Off /\ proc = Off /\ op = Off

\* scan runs on the thread of its caller, which goes on taking its steps
SpecClimb == InitClimb /\ [][NextAnc]_vars /\ WF_vars(NextAnc)

\* Path::ancestors: the path, its parent, and so on up to the root of an
\* absolute path, or to the empty path for a relative one
PathAncestors(path) ==
    {SubSeq(path, 1, n) : n \in (IF path # <<>> /\ path[1] = Root THEN 1 ELSE 0)..Len(path)}

\* C30: for marker names that are single relative path components, scan
\* always terminates and its result, when present, is the starting path or
\* one of its ancestors: every probe push is undone by one pop, the examined
\* level moves up by exactly one parent per iteration, and with both marker
\* lists empty the result is nothing.
C30_WalkTerminates ==
    /\ <>(anc.pc = "done")
    /\ [](/\ IsSome(anc.ret) => Unwrap(anc.ret) \in PathAncestors(anc.path)
          /\ \A i \in 1..Len(anc.probes) :
                /\ Len(anc.probes[i].probe) = Len(anc.probes[i].at) + 1
                /\ Pop(anc.probes[i].probe) = anc.probes[i].at
          /\ anc.pc \in {"files", "folders"} =>
                anc.buf = anc.examined[Len(anc.examined)]
          /\ \A i \in 1..Len(anc.examined) :
                /\ anc.examined[i] \in PathAncestors(anc.path)
                /\ Len(anc.examined[i]) = Len(anc.path) + 1 - i
          /\ \A i \in 1..Len(anc.probes) :
                \E j \in 1..Len(anc.examined) : anc.probes[i].at = anc.examined[j]
          /\ (anc.pc = "done" /\ anc.files = <<>> /\ anc.folders = <<>>) =>
                (anc.ret = None /\ anc.probes = <<>>))

\* on one device, with two file names and a folder name and no marker
\* anywhere, the walk probes every level up to the root, and ends
C30_Witness ==
    /\ anc.pc = "done"
    /\ anc.path = ChainPath(MaxDepth)
    /\ anc.files = <<Marker, Marker2>> /\ anc.folders = <<Marker>>
    /\ anc.ret = None
    /\ Len(anc.examined) = MaxDepth + 1
    /\ Len(anc.probes) = 3 * (MaxDepth + 1)
    /\ anc.buf = <<Root>>

====
